---- MODULE Spec2Model ----
(***************************************************************************)
(* Model of clean_datasets.py: the conditional-compilation block parser    *)
(* (parse_preprocessor_blocks, extract_block) and the label-driven filter  *)
(* (filter_blocks).                                                        *)
(*                                                                         *)
(* A line of text is a sequence of one-character strings, so that          *)
(* str.strip() and the regular expressions of the source are computed      *)
(* character by character.  Line indices are zero-based as in the source;  *)
(* element i of a Python list is element i + 1 of the TLA+ sequence.       *)
(***************************************************************************)
EXTENDS Integers, Sequences, FiniteSets, TLC

(* The state of one call of process_file: the bytes of the input file, the
   decoded text and the values of the steps that follow. *)
VARIABLES raw, content, lines, blocks, dataset_type, filtered_lines, result, pc

(* What is around the call: the step at which an exception is raised, if
   any, and the file at output_path. *)
VARIABLES fault, output

file_vars == <<raw, content, lines, blocks, dataset_type, filtered_lines,
               result, pc, fault, output>>

(* The state of one run of the script: the command line, the exit, the
   standard output, the two directories and the walk of the input. *)
VARIABLES argv, status, stdout, out_dirs, walk, cursor, out_files, opened

run_vars == <<argv, status, stdout, out_dirs, walk, cursor, out_files,
              opened>>

vars == <<file_vars, run_vars>>

(***************************************************************************)
(* Bounds of the model.                                                    *)
(***************************************************************************)
MaxLen == 5

(* The longest input file, in bytes. *)
MaxBytes == 4

(* The longest walk of the input directory, in files. *)
MaxFiles == 2

(***************************************************************************)
(* Character classes of Python's re and str.strip().                       *)
(***************************************************************************)
Whitespace == {" ", "\t", "\r", "\f"}

WordChars ==
    {"a","b","c","d","e","f","g","h","i","j","k","l","m",
     "n","o","p","q","r","s","t","u","v","w","x","y","z",
     "A","B","C","D","E","F","G","H","I","J","K","L","M",
     "N","O","P","Q","R","S","T","U","V","W","X","Y","Z",
     "0","1","2","3","4","5","6","7","8","9","_"}

(***************************************************************************)
(* Literals of the source.                                                 *)
(***************************************************************************)
HASH_IFNDEF == <<"#","i","f","n","d","e","f">>
HASH_IFDEF  == <<"#","i","f","d","e","f">>
HASH_ENDIF  == <<"#","e","n","d","i","f">>

OMITGOOD    == <<"O","M","I","T","G","O","O","D">>
OMITBAD     == <<"O","M","I","T","B","A","D">>
WIN32       == <<"_","W","I","N","3","2">>
WIN64       == <<"_","W","I","N","6","4">>
INCLUDEMAIN == <<"I","N","C","L","U","D","E","M","A","I","N">>

(***************************************************************************)
(* Characters.  A byte is a number in 0..255; a character is a string:     *)
(* the ASCII characters by themselves, the others (and the grave accent,   *)
(* which a string of this language cannot hold) by their code point.       *)
(***************************************************************************)
NL == "\n"

Printable ==
    <<" ","!","\"","#","$","%","&","'","(",")","*","+",",","-",".","/",
      "0","1","2","3","4","5","6","7","8","9",":",";","<","=",">","?",
      "@","A","B","C","D","E","F","G","H","I","J","K","L","M","N","O",
      "P","Q","R","S","T","U","V","W","X","Y","Z","[","\\","]","^","_",
      "U+96","a","b","c","d","e","f","g","h","i","j","k","l","m","n","o",
      "p","q","r","s","t","u","v","w","x","y","z","{","|","}","~">>

chr(cp) ==
    IF cp = 10 THEN NL
    ELSE IF cp = 9 THEN "\t"
    ELSE IF cp = 13 THEN "\r"
    ELSE IF cp = 12 THEN "\f"
    ELSE IF cp >= 32 /\ cp <= 126 THEN Printable[cp - 31]
    ELSE "U+" \o ToString(cp)

(***************************************************************************)
(* open(input_path, 'r', encoding='utf-8', errors='ignore').read():        *)
(* UTF-8 decoding in which the bytes of every malformed sequence are       *)
(* dropped.                                                                *)
(***************************************************************************)
(* The number of continuation bytes a first byte asks for; -1: no first
   byte of a sequence. *)
utf8_need(b) ==
    IF b < 128 THEN 0
    ELSE IF b >= 194 /\ b <= 223 THEN 1
    ELSE IF b >= 224 /\ b <= 239 THEN 2
    ELSE IF b >= 240 /\ b <= 244 THEN 3
    ELSE -1

(* The range of the byte that may follow the first byte b. *)
utf8_second_ok(b, c) ==
    IF b = 224 THEN c >= 160 /\ c <= 191
    ELSE IF b = 237 THEN c >= 128 /\ c <= 159
    ELSE IF b = 240 THEN c >= 144 /\ c <= 191
    ELSE IF b = 244 THEN c >= 128 /\ c <= 143
    ELSE c >= 128 /\ c <= 191

(* How many of the need bytes after position k continue the sequence. *)
RECURSIVE utf8_continued(_, _, _, _)
utf8_continued(bs, k, j, need) ==
    IF j <= need /\ k + j <= Len(bs)
       /\ (IF j = 1 THEN utf8_second_ok(bs[k], bs[k + 1])
           ELSE bs[k + j] >= 128 /\ bs[k + j] <= 191)
    THEN 1 + utf8_continued(bs, k, j + 1, need)
    ELSE 0

utf8_code_point(bs, k, need) ==
    IF need = 0 THEN bs[k]
    ELSE IF need = 1 THEN (bs[k] - 192) * 64 + (bs[k + 1] - 128)
    ELSE IF need = 2
    THEN (bs[k] - 224) * 4096 + (bs[k + 1] - 128) * 64 + (bs[k + 2] - 128)
    ELSE (bs[k] - 240) * 262144 + (bs[k + 1] - 128) * 4096
            + (bs[k + 2] - 128) * 64 + (bs[k + 3] - 128)

(* The decoding under errors='replace': every malformed sequence becomes
   U+FFFD. *)
RECURSIVE decode_replace_from(_, _)
decode_replace_from(bs, k) ==
    IF k > Len(bs)
    THEN <<>>
    ELSE LET need == utf8_need(bs[k])
             got  == IF need < 0 THEN 0 ELSE utf8_continued(bs, k, 1, need)
         IN  IF need >= 0 /\ got = need
             THEN <<chr(utf8_code_point(bs, k, need))>>
                     \o decode_replace_from(bs, k + need + 1)
             ELSE <<chr(65533)>> \o decode_replace_from(bs, k + got + 1)

RECURSIVE decode_from(_, _)
decode_from(bs, k) ==
    IF k > Len(bs)
    THEN <<>>
    ELSE LET need == utf8_need(bs[k])
             got  == IF need < 0 THEN 0 ELSE utf8_continued(bs, k, 1, need)
         IN  IF need >= 0 /\ got = need
             THEN <<chr(utf8_code_point(bs, k, need))>>
                     \o decode_from(bs, k + need + 1)
             ELSE decode_from(bs, k + got + 1)

decode(bs) == decode_from(bs, 1)

(***************************************************************************)
(* remove_comments(code).                                                  *)
(***************************************************************************)
(* The positions j > k + 1 at which a comment opened at k can close. *)
comment_ends(text, k) ==
    {j \in (k + 2)..(Len(text) - 1) : text[j] = "*" /\ text[j + 1] = "/"}

(* re.sub(r'/\*.*?\*/', '', code, flags=re.DOTALL), from position k on. *)
RECURSIVE remove_block_comments(_, _)
remove_block_comments(text, k) ==
    IF k > Len(text)
    THEN <<>>
    ELSE IF k < Len(text) /\ text[k] = "/" /\ text[k + 1] = "*"
            /\ comment_ends(text, k) # {}
    THEN LET j == CHOOSE e \in comment_ends(text, k) :
                     \A f \in comment_ends(text, k) : e <= f
         IN  remove_block_comments(text, j + 2)
    ELSE <<text[k]>> \o remove_block_comments(text, k + 1)

(* The number of characters from position k up to the next newline. *)
RECURSIVE line_rest(_, _)
line_rest(text, k) ==
    IF k <= Len(text) /\ text[k] # NL THEN 1 + line_rest(text, k + 1) ELSE 0

(* re.sub(r'//.*?$', '', code, flags=re.MULTILINE), from position k on. *)
RECURSIVE remove_line_comments(_, _)
remove_line_comments(text, k) ==
    IF k > Len(text)
    THEN <<>>
    ELSE IF k < Len(text) /\ text[k] = "/" /\ text[k + 1] = "/"
    THEN remove_line_comments(text, k + line_rest(text, k))
    ELSE <<text[k]>> \o remove_line_comments(text, k + 1)

remove_comments(code) ==
    remove_line_comments(remove_block_comments(code, 1), 1)

(***************************************************************************)
(* str.lower() and str.endswith(tuple), on ASCII text.                     *)
(***************************************************************************)
(* The places of 'A'..'Z' in Printable; a lower-case letter is 32 places
   after its upper-case letter. *)
UpperPlaces == 34..59

lower_char(c) ==
    IF \E i \in UpperPlaces : Printable[i] = c
    THEN Printable[(CHOOSE i \in UpperPlaces : Printable[i] = c) + 32]
    ELSE c

(* A slip: the label is compared as it was typed. *)
lower_as_typed(s) == s

lower(s) == [i \in 1..Len(s) |-> lower_char(s[i])]

(* The characters of a text as one string. *)
RECURSIVE text_of(_)
text_of(s) == IF s = <<>> THEN "" ELSE s[1] \o text_of(Tail(s))

(* ('.c', '.cpp', '.h', '.hpp') *)
SOURCE_SUFFIXES ==
    {<<".", "c">>, <<".", "c", "p", "p">>, <<".", "h">>, <<".", "h", "p", "p">>}

(* A slip: the extension is compared without regard to case. *)
endswith_any_case(name, suffixes) ==
    \E s \in suffixes :
        /\ Len(s) <= Len(name)
        /\ lower(SubSeq(name, Len(name) - Len(s) + 1, Len(name))) = s

endswith(name, suffixes) ==
    \E s \in suffixes :
        /\ Len(s) <= Len(name)
        /\ SubSeq(name, Len(name) - Len(s) + 1, Len(name)) = s

(***************************************************************************)
(* Paths, as the sequences of their components.                            *)
(***************************************************************************)
path_join(p, q) == p \o q

(* os.path.relpath(path, start), for a path below start. *)
relpath(path, start) == SubSeq(path, Len(start) + 1, Len(path))

dirname(path) == SubSeq(path, 1, Len(path) - 1)

(***************************************************************************)
(* str.strip(): drop leading and trailing whitespace.                      *)
(***************************************************************************)
RECURSIVE lstrip(_)
lstrip(s) ==
    IF Len(s) > 0 /\ s[1] \in Whitespace THEN lstrip(Tail(s)) ELSE s

RECURSIVE rstrip(_)
rstrip(s) ==
    IF Len(s) > 0 /\ s[Len(s)] \in Whitespace
    THEN rstrip(SubSeq(s, 1, Len(s) - 1))
    ELSE s

strip(s) == rstrip(lstrip(s))

(***************************************************************************)
(* re.match with a literal pattern: the pattern is a prefix of the text.   *)
(***************************************************************************)
match_literal(pattern, text) ==
    /\ Len(text) >= Len(pattern)
    /\ SubSeq(text, 1, Len(pattern)) = pattern

(***************************************************************************)
(* Length of the longest run of characters of class cls starting at        *)
(* position k (one-based) of text: the greedy quantifier +.                *)
(***************************************************************************)
RECURSIVE run_length(_, _, _)
run_length(text, k, cls) ==
    IF k <= Len(text) /\ text[k] \in cls
    THEN 1 + run_length(text, k + 1, cls)
    ELSE 0

(***************************************************************************)
(* re.match(directive \s+ (\w+), text): matched, and group(1).             *)
(***************************************************************************)
match_directive(directive, text) ==
    LET spaces == run_length(text, Len(directive) + 1, Whitespace)
        first  == Len(directive) + spaces + 1
        word   == run_length(text, first, WordChars)
    IN  IF match_literal(directive, text) /\ spaces >= 1 /\ word >= 1
        THEN [matched |-> TRUE,
              group1  |-> SubSeq(text, first, first + word - 1)]
        ELSE [matched |-> FALSE, group1 |-> <<>>]

(***************************************************************************)
(* extract_block(lines, start_idx): the lines of the block opened at       *)
(* start_idx and the index of its #endif.                                  *)
(***************************************************************************)
(* A slip that takes the length, not the last index, when no #endif
   closes the block. *)
RECURSIVE extract_scan_past_end(_, _, _, _)
extract_scan_past_end(ls, start_idx, i, depth) ==
    IF i < Len(ls)
    THEN LET line == strip(ls[i + 1])
         IN  IF match_literal(HASH_IFNDEF, line) \/ match_literal(HASH_IFDEF, line)
             THEN extract_scan_past_end(ls, start_idx, i + 1, depth + 1)
             ELSE IF match_literal(HASH_ENDIF, line)
             THEN IF depth - 1 = 0
                  THEN [block_lines |-> SubSeq(ls, start_idx + 2, i),
                        end_idx     |-> i]
                  ELSE extract_scan_past_end(ls, start_idx, i + 1, depth - 1)
             ELSE extract_scan_past_end(ls, start_idx, i + 1, depth)
    ELSE [block_lines |-> SubSeq(ls, start_idx + 2, Len(ls)),
          end_idx     |-> Len(ls)]

(* A different recovery: an opener without #endif is a block of its own
   line, and the lines after it are parsed as its siblings. *)
RECURSIVE extract_scan_opener_only(_, _, _, _)
extract_scan_opener_only(ls, start_idx, i, depth) ==
    IF i < Len(ls)
    THEN LET line == strip(ls[i + 1])
         IN  IF match_literal(HASH_IFNDEF, line) \/ match_literal(HASH_IFDEF, line)
             THEN extract_scan_opener_only(ls, start_idx, i + 1, depth + 1)
             ELSE IF match_literal(HASH_ENDIF, line)
             THEN IF depth - 1 = 0
                  THEN [block_lines |-> SubSeq(ls, start_idx + 2, i),
                        end_idx     |-> i]
                  ELSE extract_scan_opener_only(ls, start_idx, i + 1, depth - 1)
             ELSE extract_scan_opener_only(ls, start_idx, i + 1, depth)
    ELSE [block_lines |-> <<>>,
          end_idx     |-> start_idx]

(* A slip that takes the first #endif after the opener as its terminator,
   whatever is opened in between. *)
RECURSIVE extract_scan_first_endif(_, _, _, _)
extract_scan_first_endif(ls, start_idx, i, depth) ==
    IF i < Len(ls)
    THEN IF match_literal(HASH_ENDIF, strip(ls[i + 1]))
         THEN [block_lines |-> SubSeq(ls, start_idx + 2, i),
               end_idx     |-> i]
         ELSE extract_scan_first_endif(ls, start_idx, i + 1, depth)
    ELSE [block_lines |-> SubSeq(ls, start_idx + 2, Len(ls)),
          end_idx     |-> Len(ls) - 1]

(* A scan that knows `#if`: every line that begins with `#if` opens a level
   that an `#endif` closes. *)
RECURSIVE extract_scan_counts_if(_, _, _, _)
extract_scan_counts_if(ls, start_idx, i, depth) ==
    IF i < Len(ls)
    THEN LET line == strip(ls[i + 1])
         IN  IF match_literal(<<"#", "i", "f">>, line)
             THEN extract_scan_counts_if(ls, start_idx, i + 1, depth + 1)
             ELSE IF match_literal(HASH_ENDIF, line)
             THEN IF depth - 1 = 0
                  THEN [block_lines |-> SubSeq(ls, start_idx + 2, i),
                        end_idx     |-> i]
                  ELSE extract_scan_counts_if(ls, start_idx, i + 1, depth - 1)
             ELSE extract_scan_counts_if(ls, start_idx, i + 1, depth)
    ELSE [block_lines |-> SubSeq(ls, start_idx + 2, Len(ls)),
          end_idx     |-> Len(ls) - 1]

(* A slip that ends a block on the line before its #endif. *)
RECURSIVE extract_scan_stops_short(_, _, _, _)
extract_scan_stops_short(ls, start_idx, i, depth) ==
    IF i < Len(ls)
    THEN LET line == strip(ls[i + 1])
         IN  IF match_literal(HASH_IFNDEF, line) \/ match_literal(HASH_IFDEF, line)
             THEN extract_scan_stops_short(ls, start_idx, i + 1, depth + 1)
             ELSE IF match_literal(HASH_ENDIF, line)
             THEN IF depth - 1 = 0
                  THEN [block_lines |-> SubSeq(ls, start_idx + 2, i),
                        end_idx     |-> i - 1]
                  ELSE extract_scan_stops_short(ls, start_idx, i + 1, depth - 1)
             ELSE extract_scan_stops_short(ls, start_idx, i + 1, depth)
    ELSE [block_lines |-> SubSeq(ls, start_idx + 2, Len(ls)),
          end_idx     |-> Len(ls) - 1]

(* A slip that does not count the opener the scan starts at. *)
RECURSIVE extract_scan_skips_opener(_, _, _, _)
extract_scan_skips_opener(ls, start_idx, i, depth) ==
    IF i < Len(ls)
    THEN LET line == strip(ls[i + 1])
         IN  IF i = start_idx
             THEN extract_scan_skips_opener(ls, start_idx, i + 1, depth)
             ELSE IF match_literal(HASH_IFNDEF, line) \/ match_literal(HASH_IFDEF, line)
             THEN extract_scan_skips_opener(ls, start_idx, i + 1, depth + 1)
             ELSE IF match_literal(HASH_ENDIF, line)
             THEN IF depth - 1 = 0
                  THEN [block_lines |-> SubSeq(ls, start_idx + 2, i),
                        end_idx     |-> i]
                  ELSE extract_scan_skips_opener(ls, start_idx, i + 1, depth - 1)
             ELSE extract_scan_skips_opener(ls, start_idx, i + 1, depth)
    ELSE [block_lines |-> SubSeq(ls, start_idx + 2, Len(ls)),
          end_idx     |-> Len(ls) - 1]

RECURSIVE extract_scan(_, _, _, _)
extract_scan(ls, start_idx, i, depth) ==
    IF i < Len(ls)
    THEN LET line == strip(ls[i + 1])
         IN  IF match_literal(HASH_IFNDEF, line) \/ match_literal(HASH_IFDEF, line)
             THEN extract_scan(ls, start_idx, i + 1, depth + 1)
             ELSE IF match_literal(HASH_ENDIF, line)
             THEN IF depth - 1 = 0
                  THEN [block_lines |-> SubSeq(ls, start_idx + 2, i),
                        end_idx     |-> i]
                  ELSE extract_scan(ls, start_idx, i + 1, depth - 1)
             ELSE extract_scan(ls, start_idx, i + 1, depth)
    ELSE [block_lines |-> SubSeq(ls, start_idx + 2, Len(ls)),
          end_idx     |-> Len(ls) - 1]

(* A slip that keeps the #endif line among the lines of the block. *)
extract_block_with_endif(ls, start_idx) ==
    LET ex == extract_scan(ls, start_idx, start_idx, 0)
    IN  [block_lines |-> SubSeq(ls, start_idx + 2, ex.end_idx + 1),
         end_idx     |-> ex.end_idx]

extract_block(ls, start_idx) == extract_scan(ls, start_idx, start_idx, 0)

(***************************************************************************)
(* parse_preprocessor_blocks(lines): the list of nodes of the lines.       *)
(* parse_loop is the while loop from cursor i on.                          *)
(***************************************************************************)
RECURSIVE parse_preprocessor_blocks(_)
RECURSIVE parse_loop(_, _)

(* A slip that records the opener's one-based line number. *)
conditional_block_one_based(ls, i, type, condition) ==
    LET ex == extract_block(ls, i)
    IN  [type       |-> type,
         condition  |-> condition,
         content    |-> parse_preprocessor_blocks(ex.block_lines),
         start_line |-> i + 1,
         end_line   |-> ex.end_idx]

conditional_block(ls, i, type, condition) ==
    LET ex == extract_block(ls, i)
    IN  [type       |-> type,
         condition  |-> condition,
         content    |-> parse_preprocessor_blocks(ex.block_lines),
         start_line |-> i,
         end_line   |-> ex.end_idx]

(* A slip that keeps the trimmed text of the line. *)
code_line_trimmed(ls, i) ==
    [type       |-> "code",
     content    |-> strip(ls[i + 1]),
     start_line |-> i,
     end_line   |-> i]

code_line(ls, i) ==
    [type       |-> "code",
     content    |-> ls[i + 1],
     start_line |-> i,
     end_line   |-> i]

parse_loop(ls, i) ==
    IF i < Len(ls)
    THEN LET line         == strip(ls[i + 1])
             ifndef_match == match_directive(HASH_IFNDEF, line)
             ifdef_match  == match_directive(HASH_IFDEF, line)
         IN  IF ifndef_match.matched
             THEN LET b == conditional_block(ls, i, "ifndef", ifndef_match.group1)
                  IN  <<b>> \o parse_loop(ls, b.end_line + 1)
             ELSE IF ifdef_match.matched
             THEN LET b == conditional_block(ls, i, "ifdef", ifdef_match.group1)
                  IN  <<b>> \o parse_loop(ls, b.end_line + 1)
             ELSE <<code_line(ls, i)>> \o parse_loop(ls, i + 1)
    ELSE <<>>

parse_preprocessor_blocks(ls) == parse_loop(ls, 0)

(***************************************************************************)
(* filter_blocks(blocks, dataset_type).  filter_block is the body of the   *)
(* for loop: the lines one node adds to result.                            *)
(***************************************************************************)
RECURSIVE filter_blocks(_, _)

(* A slip that exchanges the roles of the two sentinels. *)
filter_ifndef_swapped(block, dt) ==
    IF dt = "bad"
    THEN IF block.condition = OMITBAD
         THEN <<>>
         ELSE IF block.condition = OMITGOOD
         THEN filter_blocks(block.content, dt)
         ELSE IF block.condition \in {WIN32, WIN64}
         THEN <<>>
         ELSE filter_blocks(block.content, dt)
    ELSE IF dt = "good"
    THEN IF block.condition = OMITGOOD
         THEN <<>>
         ELSE IF block.condition = OMITBAD
         THEN filter_blocks(block.content, dt)
         ELSE IF block.condition \in {WIN32, WIN64}
         THEN <<>>
         ELSE filter_blocks(block.content, dt)
    ELSE <<>>

(* A slip that tests the platform conditions for _WIN32 only. *)
filter_ifndef_win32_only(block, dt) ==
    IF dt = "bad"
    THEN IF block.condition = OMITGOOD
         THEN <<>>
         ELSE IF block.condition = OMITBAD
         THEN filter_blocks(block.content, dt)
         ELSE IF block.condition \in {WIN32}
         THEN <<>>
         ELSE filter_blocks(block.content, dt)
    ELSE IF dt = "good"
    THEN IF block.condition = OMITBAD
         THEN <<>>
         ELSE IF block.condition = OMITGOOD
         THEN filter_blocks(block.content, dt)
         ELSE IF block.condition \in {WIN32}
         THEN <<>>
         ELSE filter_blocks(block.content, dt)
    ELSE <<>>

(* A slip that forgets the OMITGOOD rule of the 'bad' label. *)
filter_ifndef_bad_keeps_good(block, dt) ==
    IF dt = "bad"
    THEN IF block.condition = OMITBAD
         THEN filter_blocks(block.content, dt)
         ELSE IF block.condition \in {WIN32, WIN64}
         THEN <<>>
         ELSE filter_blocks(block.content, dt)
    ELSE IF dt = "good"
    THEN IF block.condition = OMITBAD
         THEN <<>>
         ELSE IF block.condition = OMITGOOD
         THEN filter_blocks(block.content, dt)
         ELSE IF block.condition \in {WIN32, WIN64}
         THEN <<>>
         ELSE filter_blocks(block.content, dt)
    ELSE <<>>

(* A slip that applies the platform rule under the 'bad' label only. *)
filter_ifndef_good_keeps_platform(block, dt) ==
    IF dt = "bad"
    THEN IF block.condition = OMITGOOD
         THEN <<>>
         ELSE IF block.condition = OMITBAD
         THEN filter_blocks(block.content, dt)
         ELSE IF block.condition \in {WIN32, WIN64}
         THEN <<>>
         ELSE filter_blocks(block.content, dt)
    ELSE IF dt = "good"
    THEN IF block.condition = OMITBAD
         THEN <<>>
         ELSE filter_blocks(block.content, dt)
    ELSE <<>>

(* The branches of an 'ifndef' node (source lines 113-142). *)
filter_ifndef(block, dt) ==
    IF dt = "bad"
    THEN IF block.condition = OMITGOOD
         THEN <<>>
         ELSE IF block.condition = OMITBAD
         THEN filter_blocks(block.content, dt)
         ELSE IF block.condition \in {WIN32, WIN64}
         THEN <<>>
         ELSE filter_blocks(block.content, dt)
    ELSE IF dt = "good"
    THEN IF block.condition = OMITBAD
         THEN <<>>
         ELSE IF block.condition = OMITGOOD
         THEN filter_blocks(block.content, dt)
         ELSE IF block.condition \in {WIN32, WIN64}
         THEN <<>>
         ELSE filter_blocks(block.content, dt)
    ELSE <<>>

(* A slip that recurses into INCLUDEMAIN with a fixed label. *)
filter_ifdef_fixed_label(block, dt) ==
    IF block.condition = INCLUDEMAIN
    THEN filter_blocks(block.content, "good")
    ELSE filter_blocks(block.content, dt)

(* A slip that applies the platform rule to 'ifdef' nodes too. *)
filter_ifdef_platform(block, dt) ==
    IF block.condition = INCLUDEMAIN
    THEN filter_blocks(block.content, dt)
    ELSE IF block.condition \in {WIN32, WIN64}
    THEN <<>>
    ELSE filter_blocks(block.content, dt)

(* The branches of an 'ifdef' node (source lines 144-152). *)
filter_ifdef(block, dt) ==
    IF block.condition = INCLUDEMAIN
    THEN filter_blocks(block.content, dt)
    ELSE filter_blocks(block.content, dt)

filter_block(block, dt) ==
    IF block.type = "code"
    THEN <<block.content>>
    ELSE IF block.type = "ifndef"
    THEN filter_ifndef(block, dt)
    ELSE IF block.type = "ifdef"
    THEN filter_ifdef(block, dt)
    ELSE <<>>

(* A slip that appends the lines of a node before those of the nodes
   ahead of it. *)
filter_blocks_reversed(bs, dt) ==
    IF Len(bs) = 0
    THEN <<>>
    ELSE filter_blocks(Tail(bs), dt) \o filter_block(Head(bs), dt)

filter_blocks(bs, dt) ==
    IF Len(bs) = 0
    THEN <<>>
    ELSE filter_block(Head(bs), dt) \o filter_blocks(Tail(bs), dt)

(***************************************************************************)
(* '\n'.join(filtered_lines) and re.sub(r'\n{3,}', '\n\n', result).        *)
(* A text is a sequence of characters; NL is the newline character.        *)
(***************************************************************************)
(* content.split('\n'): the pieces between the newlines; from position k on. *)
RECURSIVE split_from(_, _)
split_from(text, k) ==
    LET n == line_rest(text, k)
    IN  IF k + n > Len(text)
        THEN <<SubSeq(text, k, Len(text))>>
        ELSE <<SubSeq(text, k, k + n - 1)>> \o split_from(text, k + n + 1)

split(text) == split_from(text, 1)

RECURSIVE join(_)
join(ls) ==
    IF Len(ls) = 0
    THEN <<>>
    ELSE IF Len(ls) = 1
    THEN ls[1]
    ELSE ls[1] \o <<NL>> \o join(Tail(ls))

(* A slip that writes the pattern as exactly three newlines. *)
RECURSIVE sub_newlines_exactly_three(_, _)
sub_newlines_exactly_three(text, k) ==
    IF k > Len(text)
    THEN <<>>
    ELSE IF run_length(text, k, {NL}) >= 3
    THEN <<NL, NL>> \o sub_newlines_exactly_three(text, k + 3)
    ELSE <<text[k]>> \o sub_newlines_exactly_three(text, k + 1)

(* A slip that replaces a run by one newline. *)
RECURSIVE sub_newlines_to_one(_, _)
sub_newlines_to_one(text, k) ==
    IF k > Len(text)
    THEN <<>>
    ELSE LET n == run_length(text, k, {NL})
         IN  IF n >= 3
             THEN <<NL>> \o sub_newlines_to_one(text, k + n)
             ELSE <<text[k]>> \o sub_newlines_to_one(text, k + 1)

(* A slip that takes one newline off a run of three or more. *)
RECURSIVE sub_newlines_one_fewer(_, _)
sub_newlines_one_fewer(text, k) ==
    IF k > Len(text)
    THEN <<>>
    ELSE LET n == run_length(text, k, {NL})
         IN  IF n >= 3
             THEN [i \in 1..(n - 1) |-> NL] \o sub_newlines_one_fewer(text, k + n)
             ELSE <<text[k]>> \o sub_newlines_one_fewer(text, k + 1)

(* The substitution from position k (one-based) on: the leftmost match is
   the longest run of three or more newlines that starts there. *)
RECURSIVE sub_newlines(_, _)
sub_newlines(text, k) ==
    IF k > Len(text)
    THEN <<>>
    ELSE LET n == run_length(text, k, {NL})
         IN  IF n >= 3
             THEN <<NL, NL>> \o sub_newlines(text, k + n)
             ELSE <<text[k]>> \o sub_newlines(text, k + 1)

normalize_exactly_three(text) == sub_newlines_exactly_three(text, 1)

normalize(text) == sub_newlines(text, 1)

(***************************************************************************)
(* Input lines and the vocabularies the inputs are drawn from.             *)
(***************************************************************************)
SP == <<" ">>
FOO == <<"F","O","O">>
BAR == <<"B","A","R">>

LineA       == <<"a",";">>
LineB       == <<"b",";">>
Blank       == <<>>
SpaceLine   == SP
IfndefGood  == HASH_IFNDEF \o SP \o OMITGOOD
IfndefBad   == HASH_IFNDEF \o SP \o OMITBAD
IfndefWin32 == HASH_IFNDEF \o SP \o WIN32
IfndefWin64 == HASH_IFNDEF \o SP \o WIN64
IfndefFoo   == HASH_IFNDEF \o SP \o FOO
IfndefBare  == HASH_IFNDEF
IfdefMain   == HASH_IFDEF \o SP \o INCLUDEMAIN
IfdefWin32  == HASH_IFDEF \o SP \o WIN32
IfdefGood   == HASH_IFDEF \o SP \o OMITGOOD
IfdefBad    == HASH_IFDEF \o SP \o OMITBAD
IfdefBar    == SP \o SP \o HASH_IFDEF \o SP \o BAR
Endif       == HASH_ENDIF
IfX         == <<"#","i","f"," ","X">>
ElseLine    == SP \o SP \o <<"#","e","l","s","e">>
ElifLine    == <<"#","e","l","i","f"," ","X">>
UndefLine   == <<"#","u","n","d","e","f"," ","X">>

OmitLines     == {LineA, LineB, IfndefGood, IfndefBad, IfdefMain, Endif}
PlatformLines == {LineA, IfndefWin32, IfndefWin64, IfndefBad, IfdefMain, Endif}
GenericLines  == {LineA, IfdefWin32, IfdefGood, IfdefBad, IfndefFoo, IfndefGood, Endif}
ParseLines    == {LineA, LineB, IfndefFoo, IfdefBar, IfndefBare, Endif}
BlankLines    == {LineA, Blank, SpaceLine, IfndefGood, Endif}
DirectiveLines == {IfndefGood, IfX, ElseLine, ElifLine, UndefLine, Endif}
LabelLines    == {LineA, IfndefGood, IfndefBad, IfndefWin32, IfdefMain, Endif}

SeqsUpTo(S, n) == UNION {[1..k -> S] : k \in 0..n}

(***************************************************************************)
(* The two scenarios of the specification's testable properties.           *)
(***************************************************************************)
ScenarioOmit == <<IfndefBad, LineA, Endif, IfndefGood, LineB, Endif>>
ScenarioMain == <<IfdefMain, LineA, IfndefGood, LineB, Endif, LineA, Endif>>

(***************************************************************************)
(* The pipeline of process_file from the split lines to the filtered       *)
(* lines.                                                                  *)
(***************************************************************************)
(* No run of the script is under way. *)
(* No file at output_path. *)
Absent == [exists |-> FALSE, text |-> <<>>]

(* A file at output_path with the text in it. *)
FileOf(text) == [exists |-> TRUE, text |-> text]

(* No exception, no output file. *)
Undisturbed == fault = "none" /\ output = Absent

RunIdle ==
    /\ argv = <<>>
    /\ status = "idle"
    /\ stdout = <<>>
    /\ out_dirs = {}
    /\ walk = <<>>
    /\ cursor = 0
    /\ out_files = <<>>
    /\ opened = {}

InitWith(inputs) ==
    /\ raw = <<>>
    /\ content = <<>>
    /\ lines \in inputs
    /\ blocks = <<>>
    /\ dataset_type = "none"
    /\ filtered_lines = <<>>
    /\ result = <<>>
    /\ pc = "split"
    /\ Undisturbed
    /\ RunIdle

Parse ==
    /\ pc = "split"
    /\ fault # "parse"
    /\ blocks' = parse_preprocessor_blocks(lines)
    /\ pc' = "parsed"
    /\ UNCHANGED <<raw, content, lines, dataset_type, filtered_lines, result, run_vars,
                   fault, output>>

(* A slip that consumes the list of nodes while walking it. *)
Filter_consumes_tree ==
    /\ pc = "parsed"
    /\ fault # "filter"
    /\ \E dt \in {"good", "bad"} :
          /\ dataset_type' = dt
          /\ filtered_lines' = filter_blocks(blocks, dt)
    /\ blocks' = <<>>
    /\ pc' = "filtered"
    /\ UNCHANGED <<raw, content, lines, result, run_vars,
                   fault, output>>

Filter ==
    /\ pc = "parsed"
    /\ fault # "filter"
    /\ \E dt \in {"good", "bad"} :
          /\ dataset_type' = dt
          /\ filtered_lines' = filter_blocks(blocks, dt)
    /\ pc' = "filtered"
    /\ UNCHANGED <<raw, content, lines, blocks, result, run_vars,
                   fault, output>>

Join ==
    /\ pc = "filtered"
    /\ fault # "join"
    /\ result' = join(filtered_lines)
    /\ pc' = "joined"
    /\ UNCHANGED <<raw, content, lines, blocks, dataset_type, filtered_lines, run_vars,
                   fault, output>>

Normalize ==
    /\ pc = "joined"
    /\ fault # "normalize"
    /\ result' = normalize(result)
    /\ pc' = "normalized"
    /\ UNCHANGED <<raw, content, lines, blocks, dataset_type, filtered_lines, run_vars,
                   fault, output>>

Next == Parse \/ Filter \/ Join \/ Normalize

(* A slip that opens the output file before the input is read. *)
Read_creates_output ==
    /\ pc = "open"
    /\ fault # "read"
    /\ content' = decode(raw)
    /\ output' = FileOf(<<>>)
    /\ pc' = "read"
    /\ UNCHANGED <<raw, lines, blocks, dataset_type, filtered_lines, result,
                   run_vars, fault>>

(* with open(input_path, 'r', encoding='utf-8', errors='ignore') as f:
       content = f.read() *)
Read ==
    /\ pc = "open"
    /\ fault # "read"
    /\ content' = decode(raw)
    /\ pc' = "read"
    /\ UNCHANGED <<raw, lines, blocks, dataset_type, filtered_lines, result,
                   run_vars,
                   fault, output>>

(* content = remove_comments(content) *)
StripComments ==
    /\ pc = "read"
    /\ fault # "strip"
    /\ content' = remove_comments(content)
    /\ pc' = "clean"
    /\ UNCHANGED <<raw, lines, blocks, dataset_type, filtered_lines, result,
                   run_vars,
                   fault, output>>

(* lines = content.split('\n') *)
Split ==
    /\ pc = "clean"
    /\ fault # "split"
    /\ lines' = split(content)
    /\ pc' = "split"
    /\ UNCHANGED <<raw, content, blocks, dataset_type, filtered_lines, result,
                   run_vars,
                   fault, output>>

NextFile == Read \/ StripComments \/ Split \/ Next

(* The step process_file is about to take. *)
StepAt(at) ==
    CASE at = "open"       -> "read"
      [] at = "read"       -> "strip"
      [] at = "clean"      -> "split"
      [] at = "split"      -> "parse"
      [] at = "parsed"     -> "filter"
      [] at = "filtered"   -> "join"
      [] at = "joined"     -> "normalize"
      [] at = "normalized" -> "write"
      [] OTHER             -> "none"

(* The step raises (the input cannot be opened, the recursion of the parser
   or of the filter is too deep, memory runs out, the output cannot be
   opened): process_file is left at once. *)
Raise ==
    /\ fault # "none"
    /\ fault = StepAt(pc)
    /\ pc' = "raised"
    /\ UNCHANGED <<raw, content, lines, blocks, dataset_type, filtered_lines,
                   result, fault, output, run_vars>>

(* with open(output_path, 'w', encoding='utf-8') as f: f.write(result) *)
Write ==
    /\ pc = "normalized"
    /\ fault # "write"
    /\ output' = FileOf(result)
    /\ pc' = "written"
    /\ UNCHANGED <<raw, content, lines, blocks, dataset_type, filtered_lines,
                   result, fault, run_vars>>

NextWrite == NextFile \/ Raise \/ Write

Init == InitWith(SeqsUpTo(OmitLines, MaxLen) \cup {ScenarioOmit, ScenarioMain})

Spec == Init /\ [][Next]_vars

InitPlatform == InitWith(SeqsUpTo(PlatformLines, MaxLen))

SpecPlatform == InitPlatform /\ [][Next]_vars

InitGeneric == InitWith(SeqsUpTo(GenericLines, MaxLen))

SpecGeneric == InitGeneric /\ [][Next]_vars

InitParse == InitWith(SeqsUpTo(ParseLines, MaxLen))

SpecParse == InitParse /\ [][Next]_vars

(* Files as bytes: text, comment marks, a two-byte character (C3 A9) and
   bytes that are no UTF-8 (a lone C3, a lone A9, FF). *)
Bytes == {97, 10, 47, 42, 195, 169, 255}

InitFile ==
    /\ raw \in SeqsUpTo(Bytes, MaxBytes)
    /\ content = <<>>
    /\ lines = <<>>
    /\ blocks = <<>>
    /\ dataset_type = "none"
    /\ filtered_lines = <<>>
    /\ result = <<>>
    /\ pc = "open"
    /\ Undisturbed
    /\ RunIdle

SpecFile == InitFile /\ [][NextFile]_vars

InitDirective == InitWith(SeqsUpTo(DirectiveLines, MaxLen))

SpecDirective == InitDirective /\ [][Next]_vars

InitLabels == InitWith(SeqsUpTo(LabelLines, MaxLen))

SpecLabels == InitLabels /\ [][Next]_vars

InitBlank == InitWith(SeqsUpTo(BlankLines, MaxLen))

SpecBlank == InitBlank /\ [][Next]_vars

(***************************************************************************)
(* The run of the script: __main__ and process_directory.                  *)
(***************************************************************************)
(* Words of the command line. *)
Word(s) == <<s>>
SCRIPT == Word("s")
IN_DIR == Word("i")
OUT_DIR == Word("o")

LabelWords ==
    {<<"g", "o", "o", "d">>, <<"b", "a", "d">>, <<"G", "O", "O", "D">>,
     <<"B", "a", "d">>, <<"g", "O", "o", "D">>, <<"u", "g", "l", "y">>,
     <<"g", "o", "o", "d", "s">>, <<"g", "o", "o", "d", " ">>, <<>>}

Argvs ==
    {<<SCRIPT>>, <<SCRIPT, IN_DIR, OUT_DIR>>,
     <<SCRIPT, IN_DIR, OUT_DIR, <<"g", "o", "o", "d">>, <<"x">>>>}
    \cup {<<SCRIPT, IN_DIR, OUT_DIR, l>> : l \in LabelWords}

(* The bytes of an ASCII text. *)
ord(c) ==
    IF c = NL THEN 10 ELSE 31 + (CHOOSE i \in 1..95 : Printable[i] = c)

encode(text) == [i \in 1..Len(text) |-> ord(text[i])]

(* One block for each label, and a file with a comment and a byte that is
   no UTF-8. *)
BytesOmit == encode(join(<<IfndefGood, LineA, Endif, IfndefBad, LineB, Endif>>))
BytesInvalid == <<97, 255, 59, 10, 47, 47, 97>>

(* What the file at output_path holds from an earlier run. *)
OLD == <<"o", "l", "d">>

Steps ==
    {"read", "strip", "split", "parse", "filter", "join", "normalize", "write"}

(* One call of process_file, with or without an exception at one of its
   steps and with or without a file at output_path. *)
InitWrite ==
    /\ raw \in {<<>>, BytesOmit, BytesInvalid} \cup SeqsUpTo({97, 10, 255}, 2)
    /\ content = <<>>
    /\ lines = <<>>
    /\ blocks = <<>>
    /\ dataset_type \in {"good", "bad"}
    /\ filtered_lines = <<>>
    /\ result = <<>>
    /\ pc = "open"
    /\ fault \in Steps \cup {"none"}
    /\ output \in {Absent, FileOf(OLD)}
    /\ RunIdle

SpecWrite == InitWrite /\ [][NextWrite]_vars

SUB == <<"s", "u", "b">>
BLOCKED == <<"b", "l", "o", "c", "k", "e", "d">>

(* A file of the input directory: the directory it is in (relative to the
   input directory), its name, its bytes, and what goes wrong with it:
   "read" (the input cannot be opened), "write" (the output cannot be
   opened), "mkdir" (the directory of the output cannot be made). *)
File(d, n, b, f) == [dir |-> d, name |-> n, data |-> b, fault |-> f]

Files ==
    {File(<<>>, <<"a", ".", "c">>, BytesOmit, "none"),
     File(<<SUB>>, <<"b", ".", "c", "p", "p">>, BytesInvalid, "none"),
     File(<<>>, <<"c", ".", "h">>, BytesOmit, "read"),
     File(<<SUB>>, <<"d", ".", "h", "p", "p">>, BytesInvalid, "write"),
     File(<<>>, <<"e", ".", "t", "x", "t">>, BytesOmit, "none"),
     File(<<SUB>>, <<"f", ".", "C">>, BytesInvalid, "none"),
     File(<<BLOCKED>>, <<"g", ".", "c">>, BytesOmit, "mkdir"),
     File(<<>>, <<"h", "p", "p">>, BytesInvalid, "none")}

(* The walks of a directory: its files, each once, in some order. *)
Walks ==
    {w \in SeqsUpTo(Files, MaxFiles) :
        \A i, j \in 1..Len(w) : i # j => w[i] # w[j]}

msg(k, p, e) == [kind |-> k, path |-> p, e |-> e]

input_dir == argv[2]
output_dir == argv[3]

(* The file the walk is at, and its paths (lines 197-199). *)
file == walk[cursor + 1]
input_path == path_join(path_join(<<input_dir>>, file.dir), <<file.name>>)
rel_path == relpath(input_path, <<input_dir>>)
output_path == path_join(<<output_dir>>, rel_path)

(* The values of the variables of process_file(input_path, output_path,
   dataset_type) when it comes to the open of the output. *)
process_file(data, dt) ==
    LET content_read == decode(data)
        content_clean == remove_comments(content_read)
        ls == split(content_clean)
        bs == parse_preprocessor_blocks(ls)
        fl == filter_blocks(bs, dt)
    IN  [raw |-> data, content |-> content_clean, lines |-> ls, blocks |-> bs,
         filtered_lines |-> fl, result |-> normalize(join(fl))]

(* process_file for every file of the input directory and either label. *)
Processed ==
    [f \in Files |-> [dt \in {"good", "bad"} |-> process_file(f.data, dt)]]

InitMain ==
    /\ raw = <<>>
    /\ content = <<>>
    /\ lines = <<>>
    /\ blocks = <<>>
    /\ dataset_type = "none"
    /\ filtered_lines = <<>>
    /\ result = <<>>
    /\ pc = "main"
    /\ Undisturbed
    /\ argv \in Argvs
    /\ status = "start"
    /\ stdout = <<>>
    /\ out_dirs \in {{}, {<<OUT_DIR>>}}
    /\ walk \in Walks
    /\ cursor = 0
    /\ out_files = <<>>
    /\ opened = {}

(* if len(sys.argv) != 4: usage, sys.exit(1) *)
Usage ==
    /\ status = "start"
    /\ Len(argv) # 4
    /\ stdout' = stdout \o <<msg("usage", <<>>, ""), msg("usage_types", <<>>, "")>>
    /\ status' = "exit1"
    /\ UNCHANGED <<file_vars, argv, out_dirs, walk, cursor, out_files, opened>>

(* if dataset_type not in ['good', 'bad']: error, sys.exit(1) *)
BadLabel ==
    /\ status = "start"
    /\ Len(argv) = 4
    /\ text_of(lower(argv[4])) \notin {"good", "bad"}
    /\ stdout' = stdout \o <<msg("label_error", <<>>, "")>>
    /\ status' = "exit1"
    /\ UNCHANGED <<file_vars, argv, out_dirs, walk, cursor, out_files, opened>>

(* The call of process_directory up to the walk: the output directory is
   made if it is not there. *)
Start ==
    /\ status = "start"
    /\ Len(argv) = 4
    /\ text_of(lower(argv[4])) \in {"good", "bad"}
    /\ dataset_type' = text_of(lower(argv[4]))
    /\ out_dirs' = out_dirs \cup {<<output_dir>>}
    /\ status' = "walking"
    /\ UNCHANGED <<raw, content, lines, blocks, filtered_lines, result, pc,
                   fault, output,
                   argv, stdout, walk, cursor, out_files, opened>>

(* A file whose name has none of the suffixes is passed over. *)
Skip ==
    /\ status = "walking"
    /\ cursor < Len(walk)
    /\ ~ endswith(file.name, SOURCE_SUFFIXES)
    /\ cursor' = cursor + 1
    /\ UNCHANGED <<file_vars, argv, status, stdout, out_dirs, walk, out_files,
                   opened>>

(* os.makedirs(os.path.dirname(output_path), exist_ok=True) raises: it is
   outside the try, the run ends with a traceback. *)
MakedirsFails ==
    /\ status = "walking"
    /\ cursor < Len(walk)
    /\ endswith(file.name, SOURCE_SUFFIXES)
    /\ file.fault = "mkdir"
    /\ status' = "crashed"
    /\ UNCHANGED <<file_vars, argv, stdout, out_dirs, walk, cursor, out_files,
                   opened>>

(* One turn of the loop in which process_file returns. *)
Process ==
    /\ status = "walking"
    /\ cursor < Len(walk)
    /\ endswith(file.name, SOURCE_SUFFIXES)
    /\ file.fault = "none"
    /\ out_dirs' = out_dirs \cup {dirname(output_path)}
    /\ stdout' = stdout \o <<msg("processing", rel_path, "")>>
    /\ opened' = opened \cup {input_path}
    /\ LET f == Processed[file][dataset_type]
       IN  /\ raw' = f.raw
           /\ content' = f.content
           /\ lines' = f.lines
           /\ blocks' = f.blocks
           /\ filtered_lines' = f.filtered_lines
           /\ result' = f.result
           /\ out_files' = Append(out_files,
                                  [path |-> output_path, text |-> f.result])
    /\ cursor' = cursor + 1
    /\ UNCHANGED <<dataset_type, pc, fault, output, argv, status, walk>>

(* A slip: an exception of process_file ends the walk. *)
ProcessFails_ends_walk ==
    /\ status = "walking"
    /\ cursor < Len(walk)
    /\ endswith(file.name, SOURCE_SUFFIXES)
    /\ file.fault \in {"read", "write"}
    /\ out_dirs' = out_dirs \cup {dirname(output_path)}
    /\ stdout' = stdout \o <<msg("processing", rel_path, "")>>
    /\ status' = "crashed"
    /\ UNCHANGED <<file_vars, argv, walk, cursor, out_files, opened>>

(* One turn of the loop in which process_file raises: at the open of the
   input, or at the open of the output after the text has been computed. *)
ProcessFails ==
    /\ status = "walking"
    /\ cursor < Len(walk)
    /\ endswith(file.name, SOURCE_SUFFIXES)
    /\ file.fault \in {"read", "write"}
    /\ out_dirs' = out_dirs \cup {dirname(output_path)}
    /\ stdout' = stdout \o <<msg("processing", rel_path, ""),
                              msg("error", rel_path, file.fault)>>
    /\ IF file.fault = "read"
       THEN UNCHANGED <<raw, content, lines, blocks, filtered_lines, result,
                        opened>>
       ELSE LET f == Processed[file][dataset_type]
            IN  /\ opened' = opened \cup {input_path}
                /\ raw' = f.raw
                /\ content' = f.content
                /\ lines' = f.lines
                /\ blocks' = f.blocks
                /\ filtered_lines' = f.filtered_lines
                /\ result' = f.result
    /\ cursor' = cursor + 1
    /\ UNCHANGED <<dataset_type, pc, fault, output, argv, status, walk,
                   out_files>>

(* The walk is over: print("Processing complete!") *)
Complete ==
    /\ status = "walking"
    /\ cursor = Len(walk)
    /\ stdout' = stdout \o <<msg("complete", <<>>, "")>>
    /\ status' = "done"
    /\ UNCHANGED <<file_vars, argv, out_dirs, walk, cursor, out_files, opened>>

NextMain ==
    \/ Usage
    \/ BadLabel
    \/ Start
    \/ Skip
    \/ MakedirsFails
    \/ Process
    \/ ProcessFails
    \/ Complete

SpecMain == InitMain /\ [][NextMain]_vars

(* The script runs on: a step that can be taken is taken. *)
SpecMainFair == SpecMain /\ WF_vars(NextMain)

(***************************************************************************)
(* Tree operators used to state the properties.                            *)
(***************************************************************************)
Labels == {"good", "bad"}

(* Every node of a forest, at every depth, in document order. *)
RECURSIVE NodeSeq(_)
NodeSeq(bs) ==
    IF Len(bs) = 0
    THEN <<>>
    ELSE LET b == Head(bs)
         IN  <<b>> \o (IF b.type = "code" THEN <<>> ELSE NodeSeq(b.content))
                  \o NodeSeq(Tail(bs))

AllNodes == NodeSeq(blocks)

IsBlock(b) == b.type \in {"ifndef", "ifdef"}

IsIfndefOf(b, conds) == b.type = "ifndef" /\ b.condition \in conds

(* The forest without the 'ifndef' blocks whose condition is in conds. *)
RECURSIVE WithoutIfndef(_, _)
WithoutIfndef(bs, conds) ==
    IF Len(bs) = 0
    THEN <<>>
    ELSE LET b    == Head(bs)
             rest == WithoutIfndef(Tail(bs), conds)
         IN  IF b.type = "code"
             THEN <<b>> \o rest
             ELSE IF IsIfndefOf(b, conds)
             THEN rest
             ELSE <<[b EXCEPT !.content = WithoutIfndef(b.content, conds)]>> \o rest

(* The blocks the decision table treats generically. *)
IsGeneric(b) ==
    \/ b.type = "ifdef"
    \/ b.type = "ifndef" /\ b.condition \notin {OMITGOOD, OMITBAD, WIN32, WIN64}

(* The blocks whose contents are kept under a rule of the table. *)
IsKept(b, rule) ==
    \/ rule = "bad"     /\ IsIfndefOf(b, {OMITBAD})
    \/ rule = "good"    /\ IsIfndefOf(b, {OMITGOOD})
    \/ rule = "main"    /\ b.type = "ifdef" /\ b.condition = INCLUDEMAIN
    \/ rule = "generic" /\ IsGeneric(b)

(* The forest with every block kept under rule replaced by its children. *)
RECURSIVE Spliced(_, _)
Spliced(bs, rule) ==
    IF Len(bs) = 0
    THEN <<>>
    ELSE LET b    == Head(bs)
             rest == Spliced(Tail(bs), rule)
         IN  IF b.type = "code"
             THEN <<b>> \o rest
             ELSE IF IsKept(b, rule)
             THEN Spliced(b.content, rule) \o rest
             ELSE <<[b EXCEPT !.content = Spliced(b.content, rule)]>> \o rest

IsMarker(l) ==
    LET line == strip(l)
    IN  \/ match_literal(HASH_IFNDEF, line)
        \/ match_literal(HASH_IFDEF, line)
        \/ match_literal(HASH_ENDIF, line)

NoMarkers(out) == \A i \in 1..Len(out) : ~ IsMarker(out[i])

(* The contents of the code lines of a forest, in document order. *)
RECURSIVE CodeContents(_)
CodeContents(bs) ==
    IF Len(bs) = 0
    THEN <<>>
    ELSE LET b == Head(bs)
         IN  (IF b.type = "code" THEN <<b.content>> ELSE CodeContents(b.content))
             \o CodeContents(Tail(bs))

Dropped(dt) == IF dt = "bad" THEN OMITGOOD ELSE OMITBAD

(***************************************************************************)
(* C1: under 'bad' an '#ifndef OMITGOOD' block adds no line and an         *)
(* '#ifndef OMITBAD' block adds exactly the filtered lines of its          *)
(* children; under 'good' the roles are exchanged.  This holds for every   *)
(* block at every depth, so the output is the output of the tree with the  *)
(* dropped blocks removed and the kept blocks replaced by their children.  *)
(* The scenario of the specification yields [A] and [B].                   *)
(***************************************************************************)
C1_OmitRows ==
    /\ LET N == AllNodes IN \A k \in 1..Len(N) :
          LET b == N[k]
          IN  /\ IsIfndefOf(b, {OMITGOOD}) =>
                    /\ filter_blocks(<<b>>, "bad") = <<>>
                    /\ filter_blocks(<<b>>, "good") = filter_blocks(b.content, "good")
              /\ IsIfndefOf(b, {OMITBAD}) =>
                    /\ filter_blocks(<<b>>, "good") = <<>>
                    /\ filter_blocks(<<b>>, "bad") = filter_blocks(b.content, "bad")
    /\ pc = "filtered" =>
          filtered_lines =
             filter_blocks(Spliced(WithoutIfndef(blocks, {Dropped(dataset_type)}),
                                   dataset_type),
                           dataset_type)
    /\ pc = "filtered" /\ lines = ScenarioOmit =>
          filtered_lines = IF dataset_type = "bad" THEN <<LineA>> ELSE <<LineB>>

C1_Witness ==
    /\ pc = "filtered"
    /\ lines = ScenarioOmit
    /\ dataset_type = "bad"
    /\ filtered_lines = <<LineA>>

(***************************************************************************)
(* C2: an '#ifndef _WIN32' or '#ifndef _WIN64' block adds no line under    *)
(* either label, wherever it stands in the tree and whatever is nested in  *)
(* it: the output is the output of the tree without these blocks.          *)
(***************************************************************************)
C2_PlatformExcluded ==
    /\ LET N == AllNodes IN \A k \in 1..Len(N) :
          IsIfndefOf(N[k], {WIN32, WIN64}) =>
             \A dt \in Labels : filter_blocks(<<N[k]>>, dt) = <<>>
    /\ pc = "filtered" =>
          filtered_lines =
             filter_blocks(WithoutIfndef(blocks, {WIN32, WIN64}), dataset_type)

(* A platform block that holds a nested block with a code line, in a run
   that keeps another line. *)
C2_Witness ==
    /\ pc = "filtered"
    /\ filtered_lines # <<>>
    /\ LET N == AllNodes IN \E k \in 1..Len(N) :
          /\ IsIfndefOf(N[k], {WIN64})
          /\ \E j \in 1..Len(N[k].content) :
                LET c == N[k].content[j]
                IN  IsBlock(c) /\ Len(c.content) > 0

(***************************************************************************)
(* C3: an '#ifdef INCLUDEMAIN' block is replaced by the filter output of   *)
(* its children under the same label; under 'bad' the lines of nested      *)
(* '#ifndef OMITGOOD' blocks are absent, every other code line of the      *)
(* block is kept in order, and no marker line is emitted.  In the          *)
(* scenario of the specification the two other lines are kept.             *)
(***************************************************************************)
C3_IncludeMain ==
    /\ LET N == AllNodes IN \A k \in 1..Len(N) :
          LET b == N[k]
          IN  IsKept(b, "main") =>
                /\ \A dt \in Labels :
                      /\ filter_blocks(<<b>>, dt) = filter_blocks(b.content, dt)
                      /\ NoMarkers(filter_blocks(<<b>>, dt))
                /\ filter_blocks(<<b>>, "bad") =
                      filter_blocks(WithoutIfndef(b.content, {OMITGOOD}), "bad")
                /\ filter_blocks(<<b>>, "bad") =
                      CodeContents(WithoutIfndef(b.content, {OMITGOOD, WIN32, WIN64}))
    /\ pc = "filtered" =>
          filtered_lines = filter_blocks(Spliced(blocks, "main"), dataset_type)
    /\ pc = "filtered" /\ lines = ScenarioMain /\ dataset_type = "bad" =>
          filtered_lines = <<LineA, LineA>>

C3_Witness ==
    /\ pc = "filtered"
    /\ lines = ScenarioMain
    /\ dataset_type = "bad"
    /\ filtered_lines = <<LineA, LineA>>

HasOmitBlock(bs) ==
    \E k \in 1..Len(NodeSeq(bs)) : IsIfndefOf(NodeSeq(bs)[k], {OMITGOOD, OMITBAD})

(***************************************************************************)
(* C4: every '#ifdef' block, whatever its condition, and every '#ifndef'   *)
(* block whose condition is none of OMITGOOD, OMITBAD, _WIN32, _WIN64 is   *)
(* replaced under both labels by the filtered lines of its children; the   *)
(* two labels give the same lines for it unless an '#ifndef OMITGOOD' or   *)
(* '#ifndef OMITBAD' block is nested in it.                                *)
(***************************************************************************)
C4_GenericBlocks ==
    /\ LET N == AllNodes IN \A k \in 1..Len(N) :
          LET b == N[k]
          IN  IsBlock(b) /\ IsGeneric(b) =>
                /\ \A dt \in Labels :
                      filter_blocks(<<b>>, dt) = filter_blocks(b.content, dt)
                /\ ~ HasOmitBlock(b.content) =>
                      filter_blocks(<<b>>, "good") = filter_blocks(<<b>>, "bad")
    /\ pc = "filtered" =>
          filtered_lines = filter_blocks(Spliced(blocks, "generic"), dataset_type)

(* An '#ifdef _WIN32' block that keeps a line, and an '#ifdef OMITGOOD'
   block whose lines differ between the labels. *)
C4_Witness ==
    /\ pc = "filtered"
    /\ LET N == AllNodes IN \E k \in 1..Len(N) :
          LET b == N[k]
          IN  /\ b.type = "ifdef"
              /\ b.condition = WIN32
              /\ filter_blocks(<<b>>, dataset_type) # <<>>
    /\ LET N == AllNodes IN \E k \in 1..Len(N) :
          LET b == N[k]
          IN  /\ b.type = "ifdef"
              /\ b.condition = OMITGOOD
              /\ filter_blocks(<<b>>, "good") # filter_blocks(<<b>>, "bad")

(***************************************************************************)
(* Operators used to state the properties of the parser.                   *)
(***************************************************************************)
(* The lines the depth counter of block extraction counts. *)
IsOpenerLine(l) ==
    match_literal(HASH_IFNDEF, strip(l)) \/ match_literal(HASH_IFDEF, strip(l))

IsEndifLine(l) == match_literal(HASH_ENDIF, strip(l))

(* Openers minus terminators among the lines s..k (zero-based) of ls. *)
Balance(ls, s, k) ==
    Cardinality({j \in s..k : IsOpenerLine(ls[j + 1])})
       - Cardinality({j \in s..k : IsEndifLine(ls[j + 1])})

(* The indices after s at which the opener at s is balanced. *)
Closers(ls, s) == {k \in (s + 1)..(Len(ls) - 1) : Balance(ls, s, k) = 0}

HasCloser(ls, s) == Closers(ls, s) # {}

(* The matching terminator of the opener at s: the first such index. *)
Closer(ls, s) == CHOOSE k \in Closers(ls, s) : \A j \in Closers(ls, s) : k <= j

(* The lines strictly inside the block opened at s. *)
InnerLines(ls, s) ==
    IF HasCloser(ls, s)
    THEN SubSeq(ls, s + 2, Closer(ls, s))
    ELSE SubSeq(ls, s + 2, Len(ls))

(* Every node of the forest bs parsed from the lines ls, with the lines
   its indices are relative to, the position of those lines in the whole
   input (base) and whether it is the last of its siblings. *)
RECURSIVE NodeSites(_, _, _, _)
NodeSites(bs, k, ls, base) ==
    IF k > Len(bs)
    THEN <<>>
    ELSE LET b == bs[k]
         IN  <<[node |-> b, ls |-> ls, base |-> base, last |-> (k = Len(bs))]>>
             \o (IF IsBlock(b) /\ b.start_line \in 0..(Len(ls) - 1)
                 THEN NodeSites(b.content, 1, InnerLines(ls, b.start_line),
                                base + b.start_line + 1)
                 ELSE <<>>)
             \o NodeSites(bs, k + 1, ls, base)

Sites == NodeSites(blocks, 1, lines, 0)

(* The ranges of the nodes bs are listed in increasing order, contiguous,
   and cover 0..n-1. *)
Tiles(bs, n) ==
    /\ (Len(bs) = 0) <=> (n = 0)
    /\ Len(bs) > 0 => bs[1].start_line = 0 /\ bs[Len(bs)].end_line = n - 1
    /\ \A k \in 1..Len(bs) : bs[k].start_line <= bs[k].end_line
    /\ \A k \in 1..(Len(bs) - 1) : bs[k + 1].start_line = bs[k].end_line + 1

(* The number of lines the nodes bs cover. *)
RECURSIVE LineCount(_)
LineCount(bs) ==
    IF Len(bs) = 0
    THEN 0
    ELSE (Head(bs).end_line - Head(bs).start_line + 1) + LineCount(Tail(bs))

Directive(b) == IF b.type = "ifndef" THEN HASH_IFNDEF ELSE HASH_IFDEF

(* Node b stands for the line l: the same text, or an opener of its kind
   and condition. *)
FirstLineIs(b, l) ==
    IF b.type = "code"
    THEN b.content = l
    ELSE match_directive(Directive(b), strip(l)) =
            [matched |-> TRUE, group1 |-> b.condition]

(* The nodes bs account for exactly the lines ls. *)
Represents(bs, ls) ==
    /\ Tiles(bs, Len(ls))
    /\ LineCount(bs) = Len(ls)
    /\ \A k \in 1..Len(bs) : FirstLineIs(bs[k], ls[bs[k].start_line + 1])

(***************************************************************************)
(* C5: the top-level nodes of the parse have ranges listed in increasing   *)
(* order, contiguous and disjoint, covering exactly 0..n-1; each input     *)
(* line is in exactly one range, as a code line, as the opener or the      *)
(* terminator of a block, or among the lines of the block's children.      *)
(***************************************************************************)
C5_TopLevelCoverage ==
    pc # "split" =>
       /\ Represents(blocks, lines)
       /\ \A i \in 0..(Len(lines) - 1) :
             Cardinality({k \in 1..Len(blocks) :
                blocks[k].start_line <= i /\ i <= blocks[k].end_line}) = 1
       /\ \A k \in 1..Len(blocks) :
             LET b == blocks[k]
             IN  IsBlock(b) =>
                   LineCount(b.content) + 1
                      + (IF HasCloser(lines, b.start_line) THEN 1 ELSE 0)
                   = b.end_line - b.start_line + 1

(* A terminated block with a line inside, between two other nodes. *)
C5_Witness ==
    /\ pc = "parsed"
    /\ \E k \in 2..(Len(blocks) - 1) :
          /\ IsBlock(blocks[k])
          /\ blocks[k].end_line >= blocks[k].start_line + 2
          /\ HasCloser(lines, blocks[k].start_line)

PlacedOf(S) ==
    UNION {LET b  == S[k].node
               ls == S[k].ls
           IN  IF b.type = "code"
               THEN {<<b.start_line, b.content>>}
               ELSE {<<b.start_line, ls[b.start_line + 1]>>}
                    \cup (IF HasCloser(ls, b.start_line)
                          THEN {<<b.end_line, ls[b.end_line + 1]>>}
                          ELSE {})
           : k \in 1..Len(S)}

(***************************************************************************)
(* C6: placing every code line's content at its recorded index, every      *)
(* block's opener line at its recorded start index and every terminated    *)
(* block's terminator line at its recorded end index, over all nesting     *)
(* levels, reproduces the input line sequence.                             *)
(***************************************************************************)
C6_RoundTrip ==
    pc # "split" =>
       PlacedOf(Sites) = {<<i, lines[i + 1]>> : i \in 0..(Len(lines) - 1)}

(* The same reassembly with every index shifted by the position of the
   slice it is relative to: what the recorded indices lack. *)
PlacedShiftedOf(S) ==
    UNION {LET b    == S[k].node
               ls   == S[k].ls
               base == S[k].base
           IN  IF b.type = "code"
               THEN {<<base + b.start_line, b.content>>}
               ELSE {<<base + b.start_line, ls[b.start_line + 1]>>}
                    \cup (IF HasCloser(ls, b.start_line)
                          THEN {<<base + b.end_line, ls[b.end_line + 1]>>}
                          ELSE {})
           : k \in 1..Len(S)}

RoundTripShifted ==
    pc # "split" =>
       PlacedShiftedOf(Sites) = {<<i, lines[i + 1]>> : i \in 0..(Len(lines) - 1)}

(***************************************************************************)
(* C7: for every node at every nesting level, start_line and end_line are  *)
(* positions in the whole input: the input line at index start_line is     *)
(* the node's first line.                                                  *)
(***************************************************************************)
C7_WholeInputIndices ==
    LET N == AllNodes IN \A k \in 1..Len(N) :
       LET b == N[k]
       IN  /\ b.start_line \in 0..(Len(lines) - 1)
           /\ b.end_line \in 0..(Len(lines) - 1)
           /\ FirstLineIs(b, lines[b.start_line + 1])

DisjointBlocks(bs) ==
    \A i, j \in 1..Len(bs) :
       i < j /\ IsBlock(bs[i]) /\ IsBlock(bs[j]) =>
          bs[i].end_line < bs[j].start_line

(***************************************************************************)
(* C8: in every list of siblings no two blocks have overlapping ranges,    *)
(* and every block has end_line >= start_line, also an unterminated        *)
(* opener on the last line.                                                *)
(***************************************************************************)
C8_WellNested ==
    /\ DisjointBlocks(blocks)
    /\ LET N == AllNodes IN \A k \in 1..Len(N) :
          LET b == N[k]
          IN  IsBlock(b) =>
                /\ b.end_line >= b.start_line
                /\ DisjointBlocks(b.content)

(* Two sibling blocks, the second an unterminated opener on the last line. *)
C8_Witness ==
    /\ pc = "parsed"
    /\ \E j, k \in 1..Len(blocks) :
          /\ j < k
          /\ IsBlock(blocks[j])
          /\ IsBlock(blocks[k])
          /\ blocks[k].start_line = Len(lines) - 1
          /\ blocks[k].end_line = blocks[k].start_line

(***************************************************************************)
(* C9: for every block with a matching terminator, the lines parsed into   *)
(* its children are exactly the lines strictly between the opener and the  *)
(* terminator; neither of the two is covered by the children.              *)
(***************************************************************************)
C9_ChildrenBetween ==
    LET S == Sites IN \A k \in 1..Len(S) :
       LET b  == S[k].node
           ls == S[k].ls
       IN  IsBlock(b) /\ HasCloser(ls, b.start_line) =>
              /\ b.end_line = Closer(ls, b.start_line)
              /\ IsEndifLine(ls[b.end_line + 1])
              /\ LineCount(b.content) = b.end_line - b.start_line - 1
              /\ Represents(b.content, SubSeq(ls, b.start_line + 2, b.end_line))

(* A terminated block nested in a terminated block, with a line inside. *)
C9_Witness ==
    /\ pc = "parsed"
    /\ LET S == Sites IN \E k \in 1..Len(S) :
          LET b  == S[k].node
              ls == S[k].ls
          IN  /\ IsBlock(b)
              /\ S[k].base > 0
              /\ HasCloser(ls, b.start_line)
              /\ Len(b.content) > 0
              /\ Len(ls) < Len(lines) - S[k].base

(***************************************************************************)
(* C10: when no #endif brings the depth back to zero, the block's children *)
(* are the parse of all lines after the opener, its end_line is the index  *)
(* of the last line, and no node follows the block.                        *)
(***************************************************************************)
C10_Unterminated ==
    LET S == Sites IN \A k \in 1..Len(S) :
       LET b  == S[k].node
           ls == S[k].ls
       IN  IsBlock(b) /\ ~ HasCloser(ls, b.start_line) =>
              /\ b.end_line = Len(ls) - 1
              /\ S[k].last
              /\ LineCount(b.content) = Len(ls) - 1 - b.start_line
              /\ Represents(b.content, SubSeq(ls, b.start_line + 2, Len(ls)))
              /\ b.content =
                    parse_preprocessor_blocks(SubSeq(ls, b.start_line + 2, Len(ls)))

(* An unterminated block after another node, holding an #endif-closed
   block and further lines. *)
C10_Witness ==
    /\ pc = "parsed"
    /\ \E k \in 1..Len(blocks) :
          LET b == blocks[k]
          IN  /\ k > 1
              /\ IsBlock(b)
              /\ ~ HasCloser(lines, b.start_line)
              /\ Len(b.content) >= 2
              /\ IsBlock(b.content[1])

(***************************************************************************)
(* Line occurrences.  filter_blocks never looks into the content of a      *)
(* code line, so filtering the tree whose code lines carry their position  *)
(* in the whole input yields the positions of the lines that are kept.     *)
(***************************************************************************)
RECURSIVE Tagged(_, _, _)
Tagged(bs, ls, base) ==
    [k \in 1..Len(bs) |->
        LET b == bs[k]
        IN  IF b.type = "code"
            THEN [b EXCEPT !.content = base + b.start_line]
            ELSE [b EXCEPT !.content =
                     Tagged(b.content, InnerLines(ls, b.start_line),
                            base + b.start_line + 1)]]

SeqRange(s) == {s[i] : i \in 1..Len(s)}

(* The positions of the lines kept under label dt, in output order. *)
KeptAt(dt) == filter_blocks(Tagged(blocks, lines, 0), dt)

(* The positions of the code lines inside, at any depth, an 'ifndef' block
   of the tagged forest T whose condition is in conds. *)
InsideOf(T, conds) ==
    LET N == NodeSeq(T)
    IN  UNION {IF IsIfndefOf(N[k], conds)
               THEN SeqRange(CodeContents(N[k].content))
               ELSE {} : k \in 1..Len(N)}

(***************************************************************************)
(* C11: no line occurrence inside an '#ifndef OMITGOOD' block is in the    *)
(* 'bad' output and none inside an '#ifndef OMITBAD' block is in the       *)
(* 'good' output, so the block-interior occurrences kept under the two     *)
(* labels are disjoint, also when the blocks are nested in one another.    *)
(***************************************************************************)
C11_Complementary ==
    LET T        == Tagged(blocks, lines, 0)
        keptGood == SeqRange(filter_blocks(T, "good"))
        keptBad  == SeqRange(filter_blocks(T, "bad"))
        inGood   == InsideOf(T, {OMITGOOD})
        inBad    == InsideOf(T, {OMITBAD})
    IN  /\ keptBad \cap inGood = {}
        /\ keptGood \cap inBad = {}
        /\ (keptGood \cap (inGood \cup inBad))
              \cap (keptBad \cap (inGood \cup inBad)) = {}
        /\ pc = "filtered" =>
              LET kept == KeptAt(dataset_type)
              IN  filtered_lines = [i \in 1..Len(kept) |-> lines[kept[i] + 1]]

(* Only OMITGOOD and OMITBAD blocks, one nested in the other, and each
   label keeps a line of a block. *)
C11_Witness ==
    LET T == Tagged(blocks, lines, 0)
    IN  /\ pc = "filtered"
        /\ \A k \in 1..Len(AllNodes) :
              IsBlock(AllNodes[k]) => IsIfndefOf(AllNodes[k], {OMITGOOD, OMITBAD})
        /\ \E k \in 1..Len(AllNodes) :
              /\ IsIfndefOf(AllNodes[k], {OMITGOOD})
              /\ \E j \in 1..Len(AllNodes[k].content) :
                    /\ IsIfndefOf(AllNodes[k].content[j], {OMITBAD})
                    /\ Len(AllNodes[k].content[j].content) > 0
        /\ SeqRange(filter_blocks(T, "good")) \cap InsideOf(T, {OMITGOOD}) # {}

(***************************************************************************)
(* C13: filter_blocks never changes the parse tree: once built, the tree   *)
(* (every node's type, condition, content, start_line and end_line) is the *)
(* same after the filter step and every later step, and the list returned  *)
(* by the filter is a flat sequence of lines.                              *)
(***************************************************************************)
C13_TreeNotMutated ==
    [][/\ pc # "split" => blocks' = blocks
       /\ pc = "parsed" /\ pc' = "filtered" =>
             \A i \in 1..Len(filtered_lines') :
                filtered_lines'[i] \in SeqRange(lines)]_vars

(* A filtered tree with a nested block, of which some lines are dropped
   and some kept. *)
C13_Witness ==
    /\ pc = "filtered"
    /\ Len(filtered_lines) > 0
    /\ Len(filtered_lines) < Len(CodeContents(blocks))
    /\ \E k \in 1..Len(blocks) :
          /\ IsBlock(blocks[k])
          /\ \E j \in 1..Len(blocks[k].content) : IsBlock(blocks[k].content[j])

(***************************************************************************)
(* Maximal runs of a text: newline runs and the stretches between them.    *)
(***************************************************************************)
RECURSIVE SameKindRun(_, _, _)
SameKindRun(text, k, nl) ==
    IF k <= Len(text) /\ ((text[k] = NL) = nl)
    THEN 1 + SameKindRun(text, k + 1, nl)
    ELSE 0

RECURSIVE SegmentsFrom(_, _)
SegmentsFrom(text, k) ==
    IF k > Len(text)
    THEN <<>>
    ELSE LET nl == (text[k] = NL)
             n  == SameKindRun(text, k, nl)
         IN  <<[nl |-> nl, first |-> k, len |-> n]>> \o SegmentsFrom(text, k + n)

Segments(text) == SegmentsFrom(text, 1)

RECURSIVE Concat(_)
Concat(ss) == IF Len(ss) = 0 THEN <<>> ELSE Head(ss) \o Concat(Tail(ss))

(* Every maximal run of three or more newlines replaced by two newlines. *)
Collapsed(text) ==
    LET S == Segments(text)
    IN  Concat([k \in 1..Len(S) |->
           IF S[k].nl /\ S[k].len >= 3
           THEN <<NL, NL>>
           ELSE SubSeq(text, S[k].first, S[k].first + S[k].len - 1)])

HasNewlineRun(text, n) ==
    \E k \in 1..Len(Segments(text)) :
       Segments(text)[k].nl /\ Segments(text)[k].len >= n

(***************************************************************************)
(* C14: normalization replaces every maximal run of three or more newline  *)
(* characters of the joined text by exactly two and leaves every other     *)
(* character, and runs of one or two newlines, unchanged; the final text   *)
(* never contains three consecutive newlines.                              *)
(***************************************************************************)
C14_NewlineRuns ==
    pc = "normalized" =>
       /\ result = Collapsed(join(filtered_lines))
       /\ ~ HasNewlineRun(result, 3)

(* A joined text with a run of three newlines and a shorter run. *)
C14_Witness ==
    /\ pc = "normalized"
    /\ LET S == Segments(join(filtered_lines))
       IN  /\ \E k \in 1..Len(S) : S[k].nl /\ S[k].len >= 3
           /\ \E k \in 1..Len(S) : S[k].nl /\ S[k].len < 3

(***************************************************************************)
(* Maximal runs of empty lines of a line sequence, in order.               *)
(***************************************************************************)
RECURSIVE EmptyCount(_, _)
EmptyCount(ls, k) ==
    IF k <= Len(ls) /\ ls[k] = <<>> THEN 1 + EmptyCount(ls, k + 1) ELSE 0

RECURSIVE EmptyRunsFrom(_, _)
EmptyRunsFrom(ls, k) ==
    IF k > Len(ls)
    THEN <<>>
    ELSE LET n == EmptyCount(ls, k)
         IN  IF n > 0
             THEN <<[first |-> k, len |-> n]>> \o EmptyRunsFrom(ls, k + n)
             ELSE EmptyRunsFrom(ls, k + 1)

EmptyRuns(ls) == EmptyRunsFrom(ls, 1)

(* The number of lines next to a run: before it and after it. *)
Neighbours(ls, run) ==
    (IF run.first > 1 THEN 1 ELSE 0)
       + (IF run.first + run.len - 1 < Len(ls) THEN 1 ELSE 0)

(***************************************************************************)
(* C15: any run of three or more consecutive empty lines of the filtered   *)
(* line sequence, at the start, in the middle or at the end, is exactly    *)
(* one blank line of the final text.                                       *)
(***************************************************************************)
C15_OneBlankLine ==
    pc = "normalized" /\ Len(filtered_lines) > 0 =>
       LET F == EmptyRuns(filtered_lines)
           G == EmptyRuns(split(result))
       IN  /\ Len(F) = Len(G)
           /\ \A k \in 1..Len(F) : F[k].len >= 3 => G[k].len = 1

(***************************************************************************)
(* C15 as amended: such a run is exactly two newline characters of the     *)
(* final text: one blank line when it lies between two other lines, two    *)
(* empty lines when it is at the start or at the end of the sequence,      *)
(* three when it is the whole sequence.                                    *)
(***************************************************************************)
C15_TwoNewlines ==
    pc = "normalized" /\ Len(filtered_lines) > 0 =>
       LET F == EmptyRuns(filtered_lines)
           G == EmptyRuns(split(result))
       IN  /\ Len(F) = Len(G)
           /\ \A k \in 1..Len(F) :
                 F[k].len >= 3 =>
                    /\ G[k].len = 3 - Neighbours(filtered_lines, F[k])
                    /\ Neighbours(split(result), G[k]) = Neighbours(filtered_lines, F[k])

(* Three empty lines at the start of the filtered lines, and another run
   of three between two lines. *)
C15_Witness ==
    /\ pc = "normalized"
    /\ LET F == EmptyRuns(filtered_lines)
       IN  \E k \in 1..Len(F) :
              /\ F[k].len >= 3
              /\ F[k].first = 1
              /\ Neighbours(filtered_lines, F[k]) = 1


(***************************************************************************)
(* Decoding of files that are not UTF-8.                                   *)
(***************************************************************************)
REPLACEMENT == chr(65533)

(* The bytes at which no UTF-8 sequence starts or continues. *)
RECURSIVE InvalidAt(_, _)
InvalidAt(bs, k) ==
    IF k > Len(bs)
    THEN {}
    ELSE LET need == utf8_need(bs[k])
             got  == IF need < 0 THEN 0 ELSE utf8_continued(bs, k, 1, need)
         IN  IF need >= 0 /\ got = need
             THEN InvalidAt(bs, k + need + 1)
             ELSE k..(k + got) \cup InvalidAt(bs, k + got + 1)

RECURSIVE Without(_, _)
Without(s, c) ==
    IF s = <<>> THEN <<>>
    ELSE IF s[1] = c THEN Without(Tail(s), c)
    ELSE <<s[1]>> \o Without(Tail(s), c)

(* C19, as stated: the text read from a file is its decoding in which every
   invalid byte has become a replacement character, so that a file with an
   invalid byte holds a replacement character at its place. *)
C19_InvalidBytesReplaced ==
    pc = "read" =>
        /\ content = decode_replace_from(raw, 1)
        /\ InvalidAt(raw, 1) # {} => REPLACEMENT \in SeqRange(content)

(* C19, amended: reading never fails, whatever the bytes; the text read is
   the decoding with the invalid bytes removed: the text around them is
   kept, no replacement character marks their place, and the text is
   shorter than the bytes by at least the number of invalid bytes. *)
C19_InvalidBytesRemoved ==
    /\ pc = "open" => ENABLED Read
    /\ pc = "read" =>
          /\ content = Without(decode_replace_from(raw, 1), REPLACEMENT)
          /\ REPLACEMENT \notin SeqRange(content)
          /\ Len(content) <= Len(raw) - Cardinality(InvalidAt(raw, 1))

(* A file with text, a two-byte character and an invalid byte has been
   read. *)
C19_Witness ==
    /\ pc = "read"
    /\ InvalidAt(raw, 1) # {}
    /\ "a" \in SeqRange(content)
    /\ chr(233) \in SeqRange(content)


(***************************************************************************)
(* The command line.                                                       *)
(***************************************************************************)
UpperCase ==
    [c \in {"g", "o", "d", "b", "a"} |->
        CASE c = "g" -> "G" [] c = "o" -> "O" [] c = "d" -> "D"
          [] c = "b" -> "B" [] c = "a" -> "A"]

(* word is target, in whatever case each of its letters is written. *)
Spells(word, target) ==
    /\ Len(word) = Len(target)
    /\ \A i \in 1..Len(target) :
          word[i] = target[i] \/ word[i] = UpperCase[target[i]]

LabelOf(word) ==
    IF Spells(word, <<"g", "o", "o", "d">>) THEN "good"
    ELSE IF Spells(word, <<"b", "a", "d">>) THEN "bad"
    ELSE "none"

MessageKinds(out) == {out[i].kind : i \in 1..Len(out)}

(* C16: with three arguments of which the third spells good or bad in any
   case, the run goes on to the walk with that label in lower case; with
   another number of arguments or another label the first step prints a usage
   or error message and exits with status 1, leaving the output directory
   unmade, no input file opened and no output file written; nothing follows
   the exit. *)
C16_CommandLine ==
    [][/\ status # "exit1"
       /\ status = "start" =>
            IF Len(argv) = 4 /\ LabelOf(argv[4]) # "none"
            THEN /\ status' = "walking"
                 /\ dataset_type' = LabelOf(argv[4])
            ELSE /\ status' = "exit1"
                 /\ MessageKinds(stdout') \in
                        {{"usage", "usage_types"}, {"label_error"}}
                 /\ "usage" \in MessageKinds(stdout') <=> Len(argv) # 4
                 /\ out_dirs' = out_dirs
                 /\ opened' = {}
                 /\ out_files' = <<>>
                 /\ cursor' = 0]_vars

(* A run with three arguments has exited on its label, over an input
   directory with files and no output directory. *)
C16_Witness ==
    /\ status = "exit1"
    /\ Len(argv) = 4
    /\ walk # <<>>
    /\ out_dirs = {}
    /\ opened = {}
    /\ out_files = <<>>


(***************************************************************************)
(* The walk of the input directory.                                        *)
(***************************************************************************)
Extensions == {<<"c">>, <<"c", "p", "p">>, <<"h">>, <<"h", "p", "p">>}

(* The name is a stem (empty, maybe), a dot and one of the extensions. *)
HasSourceExtension(name) ==
    \E k \in 1..Len(name) :
        name[k] = "." /\ SubSeq(name, k + 1, Len(name)) \in Extensions

RelOf(f) == f.dir \o <<f.name>>

Raises(f) == f.fault \in {"read", "write"}

(* The paths the messages of one kind name, in the order of the output. *)
RECURSIVE PathsOf(_, _)
PathsOf(out, kind) ==
    IF out = <<>> THEN <<>>
    ELSE (IF out[1].kind = kind THEN <<out[1].path>> ELSE <<>>)
            \o PathsOf(Tail(out), kind)

IsEligible(f) == HasSourceExtension(f.name)
IsFailing(f) == IsEligible(f) /\ Raises(f)

Eligible == {f \in Files : IsEligible(f)}
Failing == {f \in Files : IsFailing(f)}

(* The relative paths of the files of w that are in S, in walk order. *)
RECURSIVE RelPaths(_, _)
RelPaths(w, S) ==
    IF w = <<>> THEN <<>>
    ELSE (IF w[1] \in S THEN <<RelOf(w[1])>> ELSE <<>>) \o RelPaths(Tail(w), S)

(* No directory of an output file fails to be made from the cursor on. *)
WalkCanEnd ==
    \A i \in (cursor + 1)..Len(walk) :
        IsEligible(walk[i]) => walk[i].fault # "mkdir"

(* C17: when process_file raises for the file of the walk, the error is
   printed with the relative path of the file and the walk goes on with the
   next file; at the end the files attempted are the eligible files of the
   walk, in order, whichever of them failed, and the errors printed are those
   of the files that failed; a walk in which process_file is all that fails
   comes to its end. *)
C17_PartialFailure ==
    /\ [][status = "walking" /\ cursor < Len(walk)
            /\ IsFailing(walk[cursor + 1]) =>
              /\ status' = "walking"
              /\ cursor' = cursor + 1
              /\ stdout'[Len(stdout')] =
                    msg("error", RelOf(walk[cursor + 1]), walk[cursor + 1].fault)
              /\ PathsOf(stdout', "processing") =
                    Append(PathsOf(stdout, "processing"), RelOf(walk[cursor + 1]))]_vars
    /\ [](status = "done" =>
              /\ cursor = Len(walk)
              /\ PathsOf(stdout, "processing") = RelPaths(walk, Eligible)
              /\ PathsOf(stdout, "error") = RelPaths(walk, Failing)
              /\ stdout[Len(stdout)].kind = "complete")
    /\ (status = "walking" /\ WalkCanEnd) ~> (status = "done")

(* A run has ended in which a file failed and the file after it was
   processed. *)
C17_Witness ==
    /\ status = "done"
    /\ \E i, j \in 1..Len(walk) :
          /\ i < j
          /\ IsFailing(walk[i])
          /\ IsEligible(walk[j]) /\ ~ Raises(walk[j])
          /\ \E k \in 1..Len(out_files) :
                out_files[k].path = <<output_dir>> \o RelOf(walk[j])


(***************************************************************************)
(* The output directory.                                                   *)
(***************************************************************************)
Succeeding == {f \in Files : IsEligible(f) /\ f.fault = "none"}

(* The text of the output of a file of the input directory, as the script
   itself writes it for the label. *)
ExpectedText(f, label) ==
    IF f.data = BytesOmit
    THEN (IF label = "good" THEN <<"a", ";">> ELSE <<"b", ";">>)
    ELSE <<"a", ";", NL>>

Walked == SubSeq(walk, 1, cursor)

(* C18: at every point of the walk the files attempted are the files passed
   so far whose names have one of the four extensions, and the output files
   written are, one for one and in order, those of them that process_file has
   not failed on, each at its relative path under the output directory and
   holding the filtered, normalized text for the label; no other file is
   written. *)
C18_Mirroring ==
    status \in {"walking", "done", "crashed"} =>
        /\ PathsOf(stdout, "processing") = RelPaths(Walked, Eligible)
        /\ [k \in 1..Len(out_files) |-> out_files[k].path]
              = [k \in 1..Len(RelPaths(Walked, Succeeding)) |->
                    <<output_dir>> \o RelPaths(Walked, Succeeding)[k]]
        /\ \A k \in 1..Len(out_files) :
              \E f \in Succeeding :
                  /\ out_files[k].path = <<output_dir>> \o RelOf(f)
                  /\ out_files[k].text = ExpectedText(f, LabelOf(argv[4]))

(* The walk has ended over a file in a subdirectory that was written and a
   file of another extension. *)
C18_Witness ==
    /\ status = "done"
    /\ \E i \in 1..Len(walk) : ~ IsEligible(walk[i])
    /\ \E k \in 1..Len(out_files) : Len(out_files[k].path) = 3


(***************************************************************************)
(* Recognition of openers.                                                 *)
(***************************************************************************)
(* What follows the directive at the head of a trimmed line. *)
AfterDirective(directive, text) == SubSeq(text, Len(directive) + 1, Len(text))

(* The trimmed line is the directive, white space and an identifier. *)
HasIdentifier(directive, text) ==
    LET rest == AfterDirective(directive, text)
    IN  /\ match_literal(directive, text)
        /\ rest # <<>>
        /\ rest[1] \in Whitespace
        /\ lstrip(rest) # <<>>
        /\ lstrip(rest)[1] \in WordChars

(* The longest run of identifier characters at the head of s. *)
RECURSIVE Identifier(_)
Identifier(s) ==
    IF s # <<>> /\ s[1] \in WordChars
    THEN <<s[1]>> \o Identifier(Tail(s))
    ELSE <<>>

KindOf(directive) == IF directive = HASH_IFNDEF THEN "ifndef" ELSE "ifdef"

(* The node at a site is a block exactly when its line is an opener with an
   identifier, and then its kind and condition are those of the line. *)
RecognizedAt(site) ==
    LET b    == site.node
        text == strip(site.ls[b.start_line + 1])
    IN  /\ IsBlock(b) <=>
              \E d \in {HASH_IFNDEF, HASH_IFDEF} : HasIdentifier(d, text)
        /\ IsBlock(b) =>
              \E d \in {HASH_IFNDEF, HASH_IFDEF} :
                 /\ HasIdentifier(d, text)
                 /\ b.type = KindOf(d)
                 /\ b.condition = Identifier(lstrip(AfterDirective(d, text)))

(* The depth counter and the parser agree on the node at a site inside a
   block: its line is counted as an opener exactly when it is a block. *)
CountedAsParsed(site) ==
    LET b == site.node
    IN  site.base > 0 =>
           (IsOpenerLine(site.ls[b.start_line + 1]) <=> IsBlock(b))

OpenersRecognized ==
    pc # "split" =>
        LET S == Sites IN \A k \in 1..Len(S) : RecognizedAt(S[k])

(* C20: a line is parsed as the opener of a block exactly when, trimmed, it
   is `#ifndef` or `#ifdef` followed by an identifier, with that kind and
   that condition; and inside a block the lines that block extraction counts
   as openers are the lines parsed as openers of the children. *)
C20_OpenerRecognition ==
    pc # "split" =>
        LET S == Sites IN
            \A k \in 1..Len(S) : RecognizedAt(S[k]) /\ CountedAsParsed(S[k])

(***************************************************************************)
(* The scan for the terminator.                                            *)
(***************************************************************************)
(* The text begins with the prefix. *)
Begins(text, prefix) ==
    Len(text) >= Len(prefix) /\ SubSeq(text, 1, Len(prefix)) = prefix

(* The depth counter after the lines s..k of ls, counted from zero before
   s: up on an opening directive, down on `#endif`. *)
RECURSIVE DepthAfter(_, _, _)
DepthAfter(ls, s, k) ==
    IF k < s
    THEN 0
    ELSE LET text == strip(ls[k + 1])
         IN  DepthAfter(ls, s, k - 1)
                + (IF Begins(text, HASH_IFNDEF) \/ Begins(text, HASH_IFDEF)
                   THEN 1
                   ELSE IF Begins(text, HASH_ENDIF) THEN -1 ELSE 0)

(* The indices after s at which the depth is back at zero. *)
ZeroDepth(ls, s) ==
    {e \in (s + 1)..(Len(ls) - 1) : DepthAfter(ls, s, e) = 0}

FirstOf(S) == CHOOSE e \in S : \A f \in S : e <= f

(* The line at index s is parsed as an opener. *)
ParsedOpener(ls, s) ==
    \/ match_directive(HASH_IFNDEF, strip(ls[s + 1])).matched
    \/ match_directive(HASH_IFDEF, strip(ls[s + 1])).matched

(* C21: for an opener at index s whose depth, counted from s with the opener
   included, comes back to zero, extract_block returns the first index e > s
   of depth zero and the lines s+1..e-1; at top level the block has that end,
   its children are the parse of those lines and the node after it starts at
   e+1. *)
C21_TerminatorMatching ==
    pc # "split" =>
        /\ \A s \in 0..(Len(lines) - 1) :
              ParsedOpener(lines, s) /\ ZeroDepth(lines, s) # {} =>
                 LET e == FirstOf(ZeroDepth(lines, s))
                 IN  /\ extract_block(lines, s).end_idx = e
                     /\ extract_block(lines, s).block_lines
                           = [j \in 1..(e - s - 1) |-> lines[s + 1 + j]]
        /\ \A k \in 1..Len(blocks) :
              LET b == blocks[k]
              IN  IsBlock(b) /\ ZeroDepth(lines, b.start_line) # {} =>
                     LET e == FirstOf(ZeroDepth(lines, b.start_line))
                     IN  /\ b.end_line = e
                         /\ b.content = parse_preprocessor_blocks(
                               [j \in 1..(e - b.start_line - 1) |->
                                   lines[b.start_line + 1 + j]])
                         /\ IF k < Len(blocks)
                            THEN blocks[k + 1].start_line = e + 1
                            ELSE e + 1 = Len(lines)

(* A block whose terminator is not the first `#endif` after its opener,
   followed by another node. *)
C21_Witness ==
    /\ pc = "parsed"
    /\ \E k \in 1..(Len(blocks) - 1) :
          /\ IsBlock(blocks[k])
          /\ ZeroDepth(lines, blocks[k].start_line) # {}
          /\ \E j \in (blocks[k].start_line + 1)..(blocks[k].end_line - 1) :
                IsEndifLine(lines[j + 1])

(***************************************************************************)
(* Lines that open no block.                                               *)
(***************************************************************************)
HASH_IF == <<"#", "i", "f">>
HASH_ELIF == <<"#", "e", "l", "i", "f">>
HASH_ELSE == <<"#", "e", "l", "s", "e">>
HASH_UNDEF == <<"#", "u", "n", "d", "e", "f">>

(* An `#if`, `#elif`, `#else` or `#undef` line. *)
IsOtherDirective(l) ==
    LET text == strip(l)
    IN  \/ Begins(text, HASH_ELIF)
        \/ Begins(text, HASH_ELSE)
        \/ Begins(text, HASH_UNDEF)
        \/ /\ Begins(text, HASH_IF)
           /\ ~ Begins(text, HASH_IFDEF)
           /\ ~ Begins(text, HASH_IFNDEF)

(* The lines with every such directive replaced by a statement. *)
Plain(ls) ==
    [i \in 1..Len(ls) |-> IF IsOtherDirective(ls[i]) THEN LineA ELSE ls[i]]

(* The lists of siblings of the parse: the top level and the children of
   every block. *)
SiblingLists ==
    LET N == AllNodes
    IN  {blocks} \cup {N[k].content : k \in {j \in 1..Len(N) : IsBlock(N[j])}}

(* The conditions of the blocks dropped under a label. *)
DroppedConds(dt) == {Dropped(dt), WIN32, WIN64}

(* C22: a line at the cursor that is no recognized opener becomes a code
   line of that one line, verbatim, and the next node starts on the line
   after it; every `#if`, `#elif`, `#else` and `#undef` line of the input is
   such a code line; these lines change no nesting (the tree has the shape
   it has with statements in their place); and each of them that is in no
   dropped block is emitted, as it was written, under the label. *)
C22_OtherDirectives ==
    pc # "split" =>
        LET S == Sites
            T == Tagged(blocks, lines, 0)
        IN  /\ \A k \in 1..Len(S) :
                  LET b  == S[k].node
                      ls == S[k].ls
                  IN  ~ ParsedOpener(ls, b.start_line) =>
                         /\ b.type = "code"
                         /\ b.content = ls[b.start_line + 1]
                         /\ b.end_line = b.start_line
            /\ \A bs \in SiblingLists : \A k \in 1..(Len(bs) - 1) :
                  bs[k].type = "code" =>
                     bs[k + 1].start_line = bs[k].start_line + 1
            /\ \A i \in 0..(Len(lines) - 1) :
                  IsOtherDirective(lines[i + 1]) =>
                     /\ i \in SeqRange(CodeContents(T))
                     /\ \A dt \in Labels :
                           i \notin InsideOf(T, DroppedConds(dt)) =>
                              i \in SeqRange(filter_blocks(T, dt))
            /\ Tagged(parse_preprocessor_blocks(Plain(lines)), Plain(lines), 0) = T
            /\ pc = "filtered" =>
                  LET kept == KeptAt(dataset_type)
                  IN  filtered_lines = [i \in 1..Len(kept) |-> lines[kept[i] + 1]]

(* An indented `#else` inside a block that is kept has been emitted with its
   indentation. *)
C22_Witness ==
    /\ pc = "filtered"
    /\ dataset_type = "good"
    /\ ElseLine \in SeqRange(filtered_lines)
    /\ \E k \in 1..Len(blocks) :
          /\ IsBlock(blocks[k])
          /\ \E j \in 1..Len(blocks[k].content) :
                blocks[k].content[j].type = "code"
                   /\ blocks[k].content[j].content = ElseLine

(***************************************************************************)
(* The output as a subsequence of the input.                               *)
(***************************************************************************)
StrictlyIncreasing(s) == \A i, j \in 1..Len(s) : i < j => s[i] < s[j]

(* C23: the lines emitted are the lines of the input at strictly increasing
   positions (in input order, each occurrence once); every one of them is,
   verbatim, a code line of the tree; and the positions emitted are exactly
   those of the code lines that are inside no dropped block. *)
C23_Subsequence ==
    pc = "filtered" =>
        LET T    == Tagged(blocks, lines, 0)
            kept == filter_blocks(T, dataset_type)
            code == CodeContents(T)
        IN  /\ StrictlyIncreasing(kept)
            /\ SeqRange(kept) \subseteq 0..(Len(lines) - 1)
            /\ Len(filtered_lines) = Len(kept)
            /\ \A i \in 1..Len(kept) : filtered_lines[i] = lines[kept[i] + 1]
            /\ StrictlyIncreasing(code)
            /\ \A i \in 1..Len(code) :
                  CodeContents(blocks)[i] = lines[code[i] + 1]
            /\ SeqRange(kept) =
                  SeqRange(code) \ InsideOf(T, DroppedConds(dataset_type))

(* Lines before, inside and after a dropped block, and inside a kept one:
   some emitted, some not, and two equal lines among the emitted. *)
C23_Witness ==
    /\ pc = "filtered"
    /\ Len(filtered_lines) >= 2
    /\ Len(filtered_lines) < Len(CodeContents(blocks))
    /\ \E i, j \in 1..Len(filtered_lines) :
          i < j /\ filtered_lines[i] = filtered_lines[j]
    /\ \E k \in 1..Len(blocks) :
          IsIfndefOf(blocks[k], {Dropped(dataset_type)})
             /\ Len(blocks[k].content) > 0

(***************************************************************************)
(* Markers in the output.                                                  *)
(***************************************************************************)
(* The input positions of the openers and terminators of the blocks of the
   parse. *)
MarkerPositions ==
    LET S == Sites
    IN  UNION {IF IsBlock(S[k].node)
               THEN {S[k].base + S[k].node.start_line}
                       \cup (IF HasCloser(S[k].ls, S[k].node.start_line)
                             THEN {S[k].base + S[k].node.end_line}
                             ELSE {})
               ELSE {} : k \in 1..Len(S)}

(* Every line with the prefix of a directive is the opener or the
   terminator of a block of the parse. *)
AllDirectivesMatched ==
    \A i \in 0..(Len(lines) - 1) :
        IsMarker(lines[i + 1]) => i \in MarkerPositions

(* C24, as stated: no line of the filtered output, trimmed, begins with
   `#ifndef`, `#ifdef` or `#endif`. *)
C24_NoMarkers ==
    pc = "filtered" => NoMarkers(filtered_lines)

(* C24, amended: the opener and the terminator of a block of the parse are
   never emitted; a line of the output that begins with a directive is an
   input line the parser took as a code line, an `#endif` that closes no
   block or an `#ifndef`/`#ifdef` without identifier; and when every
   directive line of the input is the opener or the terminator of a block,
   the output has no such line. *)
C24_BlockMarkersStripped ==
    pc = "filtered" =>
        LET T    == Tagged(blocks, lines, 0)
            kept == filter_blocks(T, dataset_type)
        IN  /\ SeqRange(kept) \cap MarkerPositions = {}
            /\ \A i \in 1..Len(kept) :
                  /\ filtered_lines[i] = lines[kept[i] + 1]
                  /\ IsMarker(filtered_lines[i]) =>
                        /\ kept[i] \in SeqRange(CodeContents(T))
                        /\ ~ ParsedOpener(lines, kept[i])
            /\ AllDirectivesMatched => NoMarkers(filtered_lines)

(* A block has been kept without its opener and terminator, and an `#endif`
   that closes no block has been emitted after it. *)
C24_Witness ==
    /\ pc = "filtered"
    /\ \E k \in 1..Len(blocks) :
          /\ IsBlock(blocks[k])
          /\ HasCloser(lines, blocks[k].start_line)
          /\ Len(blocks[k].content) > 0
          /\ k < Len(blocks)
          /\ blocks[k + 1].type = "code"
          /\ IsEndifLine(blocks[k + 1].content)
    /\ \E i \in 1..Len(filtered_lines) : IsEndifLine(filtered_lines[i])
    /\ \E i \in 1..Len(filtered_lines) : ~ IsMarker(filtered_lines[i])

(***************************************************************************)
(* `#if` inside a block.                                                   *)
(***************************************************************************)
IsIfLine(l) ==
    LET text == strip(l)
    IN  Begins(text, HASH_IF) /\ ~ Begins(text, HASH_IFDEF)
           /\ ~ Begins(text, HASH_IFNDEF)

(* The nesting after the lines s..k of ls as a C preprocessor counts it:
   `#if`, `#ifdef` and `#ifndef` open, `#endif` closes. *)
RECURSIVE RealDepthAfter(_, _, _)
RealDepthAfter(ls, s, k) ==
    IF k < s
    THEN 0
    ELSE LET text == strip(ls[k + 1])
         IN  RealDepthAfter(ls, s, k - 1)
                + (IF Begins(text, HASH_IF) THEN 1
                   ELSE IF Begins(text, HASH_ENDIF) THEN -1 ELSE 0)

RealClosers(ls, s) ==
    {e \in (s + 1)..(Len(ls) - 1) : RealDepthAfter(ls, s, e) = 0}

(* The `#if` lines directly inside the block opened at s. *)
DirectIfs(ls, s) ==
    {f \in (s + 1)..(Len(ls) - 1) :
        /\ IsIfLine(ls[f + 1])
        /\ RealDepthAfter(ls, s, f) = 2
        /\ \A j \in (s + 1)..(f - 1) : RealDepthAfter(ls, s, j) >= 1}

(* The lists of siblings of the parse, each with the lines it was parsed
   from and the position of those lines in the input. *)
ListSites ==
    LET S == Sites
    IN  {[bs |-> blocks, ls |-> lines, base |-> 0]}
        \cup {[bs   |-> S[k].node.content,
               ls   |-> InnerLines(S[k].ls, S[k].node.start_line),
               base |-> S[k].base + S[k].node.start_line + 1] :
                  k \in {j \in 1..Len(S) : IsBlock(S[j].node)}}

(* The block bs[k] of the list L, when the first `#if` after its opener is
   directly inside it, holds no other `#if` and has its `#endif` in the
   lines of the list: that `#if`, its `#endif` and the last line that
   belongs to the block as C nests it. *)
IfCase(L, k) ==
    LET s  == L.bs[k].start_line
        fs == {f \in DirectIfs(L.ls, s) :
                 /\ RealClosers(L.ls, f) # {}
                 /\ \A j \in (s + 1)..(f - 1) : ~ IsIfLine(L.ls[j + 1])
                 /\ \A j \in (f + 1)..FirstOf(RealClosers(L.ls, f)) :
                       ~ IsIfLine(L.ls[j + 1])}
        f  == FirstOf(fs)
        g  == FirstOf(RealClosers(L.ls, f))
        r  == IF RealClosers(L.ls, s) # {}
              THEN FirstOf(RealClosers(L.ls, s))
              ELSE Len(L.ls) - 1
    IN  [applies |-> IsBlock(L.bs[k]) /\ fs # {},
         if_line |-> IF fs # {} THEN f ELSE -1,
         if_end  |-> IF fs # {} THEN g ELSE -1,
         real_end |-> r]

(* C25: when a block has an `#if` pair directly inside it, the `#if` line leaves
   the depth counter as it is and its `#endif` lowers it, so the block ends
   at the `#endif` of the `#if`; the lines after it, up to and including the
   `#endif` that closes the block in C, are covered by the nodes that follow
   the block in its list and none of them is among the block's children; at
   top level under 'bad', the code lines among them that follow an OMITGOOD
   block are emitted. *)
C25_IfInsideBlock ==
    pc # "split" =>
        LET T == Tagged(blocks, lines, 0)
        IN  \A L \in ListSites : \A k \in 1..Len(L.bs) :
               LET c == IfCase(L, k)
                   b == L.bs[k]
               IN  c.applies =>
                      /\ DepthAfter(L.ls, b.start_line, c.if_line)
                            = DepthAfter(L.ls, b.start_line, c.if_line - 1)
                      /\ DepthAfter(L.ls, b.start_line, c.if_end)
                            = DepthAfter(L.ls, b.start_line, c.if_end - 1) - 1
                      /\ b.end_line = c.if_end
                      /\ \A i \in (c.if_end + 1)..c.real_end :
                            /\ \E n \in (k + 1)..Len(L.bs) :
                                  L.bs[n].start_line <= i /\ i <= L.bs[n].end_line
                            /\ L.base + i \notin
                                  SeqRange(CodeContents(Tagged(<<b>>, L.ls, L.base)))
                      /\ L.base = 0 /\ IsIfndefOf(b, {OMITGOOD}) =>
                            \A n \in (k + 1)..Len(L.bs) :
                               L.bs[n].type = "code"
                                  /\ L.bs[n].start_line <= c.real_end =>
                                     L.bs[n].start_line
                                        \in SeqRange(filter_blocks(T, "bad"))

(* An OMITGOOD block at top level with an `#if` and its `#endif` inside, a
   line after them and the `#endif` of the block: under 'bad' the line and
   the `#endif` have been emitted. *)
C25_Witness ==
    /\ pc = "filtered"
    /\ dataset_type = "bad"
    /\ Len(blocks) >= 3
    /\ IsIfndefOf(blocks[1], {OMITGOOD})
    /\ IfCase([bs |-> blocks, ls |-> lines, base |-> 0], 1).applies
    /\ IfCase([bs |-> blocks, ls |-> lines, base |-> 0], 1).real_end
          = blocks[3].start_line
    /\ IsEndifLine(blocks[3].content)
    /\ filtered_lines = <<blocks[2].content, blocks[3].content>>

(* ------------------------------------------------------------------ *)
(* C26: the output file is opened last.                                 *)

(* Every step before the write has completed on the bytes read. *)
AllCompleted ==
    /\ content = remove_comments(decode(raw))
    /\ lines = split(content)
    /\ blocks = parse_preprocessor_blocks(lines)
    /\ filtered_lines = filter_blocks(blocks, dataset_type)
    /\ result = normalize(join(filtered_lines))

(* C26: the file at output_path changes only in the step that follows
   normalization, when reading, comment stripping, splitting, parsing,
   filtering, joining and normalization have all completed, and it then
   holds the result; a step that raises leaves the file as it was, absent
   or with its previous content, and nothing follows it. *)
C26_OutputWrittenLast ==
    [][/\ output' # output =>
            /\ pc = "normalized"
            /\ pc' = "written"
            /\ AllCompleted
            /\ output' = FileOf(result)
       /\ pc' = "raised" => output' = output
       /\ pc = "raised" => pc' = "raised"]_vars

(* An exception of the parser with a file already at output_path: the file
   still holds its previous content. *)
C26_Witness ==
    /\ pc = "raised"
    /\ fault = "parse"
    /\ lines # <<>>
    /\ output = FileOf(OLD)

(* ------------------------------------------------------------------ *)
(* C27: the measures that make the parser terminate.                    *)

(* From every index and depth the scan of extract_block ends at an index
   that is not behind it and is inside the list: the index only goes up, and
   no further than the end of the input. *)
ScanAdvances(ls) ==
    \A k \in 0..(Len(ls) - 1) : \A i \in k..(Len(ls) - 1) : \A d \in 0..Len(ls) :
        extract_scan(ls, k, i, d).end_idx \in i..(Len(ls) - 1)

(* At every opener the loop of the parser can be at, the block ends at or
   after the opener, so that the cursor end_idx + 1 is beyond it, and the
   lines handed to the recursive call are fewer than the lines of the list. *)
OpenersShrink(ls) ==
    \A k \in 0..(Len(ls) - 1) :
        ParsedOpener(ls, k) =>
            LET ex == extract_block(ls, k)
            IN  /\ ex.end_idx >= k
                /\ Len(ex.block_lines) < Len(ls)

(* The nodes of a list, in order, are the stops of the cursor: the first at
   index 0, each next one past the end of the one before, the last at the
   end of the list. *)
CursorClimbs(bs, ls) ==
    /\ Len(bs) = 0 <=> Len(ls) = 0
    /\ Len(bs) > 0 => bs[1].start_line = 0 /\ bs[Len(bs)].end_line = Len(ls) - 1
    /\ \A j \in 1..Len(bs) : bs[j].start_line <= bs[j].end_line
    /\ \A j \in 1..(Len(bs) - 1) : bs[j + 1].start_line = bs[j].end_line + 1

(* C27: parse_preprocessor_blocks terminates: on the input before it is
   parsed and, once it is parsed, on the input and on every list of lines a
   recursive call was made on, the scan of
   extract_block only advances and stays inside the list, every block ends
   at or after its opener, the lines of every block are fewer than the lines
   of the list it is in, and the nodes of the list record a cursor that
   strictly increases from 0 to the end of the list. *)
C27_ParserTerminates ==
    /\ pc = "split" => ScanAdvances(lines) /\ OpenersShrink(lines)
    /\ pc = "parsed" =>
          \A L \in ListSites :
              /\ ScanAdvances(L.ls)
              /\ OpenersShrink(L.ls)
              /\ CursorClimbs(L.bs, L.ls)
              /\ \A j \in 1..Len(L.bs) :
                    IsBlock(L.bs[j]) =>
                        Len(InnerLines(L.ls, L.bs[j].start_line)) < Len(L.ls)

(* A parsed input with a block inside a block and a block without #endif:
   two levels of recursive calls, and a scan that ran to the end of its
   list. *)
C27_Witness ==
    /\ pc = "parsed"
    /\ \E j \in 1..Len(blocks) :
          /\ IsBlock(blocks[j])
          /\ \E m \in 1..Len(blocks[j].content) :
                /\ IsBlock(blocks[j].content[m])
                /\ ZeroDepth(InnerLines(lines, blocks[j].start_line),
                             blocks[j].content[m].start_line) = {}

(* ------------------------------------------------------------------ *)
(* C28: the two outputs differ by OMITGOOD/OMITBAD content only.        *)

(* Line s of ls is `#ifndef OMITGOOD` or `#ifndef OMITBAD`. *)
IsOmitOpener(ls, s) ==
    LET m == match_directive(HASH_IFNDEF, strip(ls[s + 1]))
    IN  m.matched /\ m.group1 \in {OMITGOOD, OMITBAD}

(* The positions after such an opener and up to its #endif, or up to the
   end of the input when it has none: the lines enclosed, at any depth, in
   an OMITGOOD or OMITBAD block. *)
OmitEnclosed(ls) ==
    {i \in 0..(Len(ls) - 1) :
        \E s \in 0..(i - 1) :
            /\ IsOmitOpener(ls, s)
            /\ HasCloser(ls, s) => i <= Closer(ls, s)}

(* C28: a line occurrence of the input that is not enclosed, at any depth,
   in an `#ifndef OMITGOOD` or `#ifndef OMITBAD` block is among the lines
   kept under 'good' exactly when it is among the lines kept under 'bad';
   the filtered lines of the run are the lines kept under its label. *)
C28_LabelsDifferByOmitOnly ==
    pc = "filtered" =>
        LET T    == Tagged(blocks, lines, 0)
            good == SeqRange(filter_blocks(T, "good"))
            bad  == SeqRange(filter_blocks(T, "bad"))
            kept == filter_blocks(T, dataset_type)
        IN  /\ filtered_lines = [i \in 1..Len(kept) |-> lines[kept[i] + 1]]
            /\ \A i \in (0..(Len(lines) - 1)) \ OmitEnclosed(lines) :
                  i \in good <=> i \in bad

(* An input with an OMITGOOD or OMITBAD opener, a line outside every block,
   kept under both labels, and a line of a _WIN32 block, kept under
   neither. *)
C28_Witness ==
    /\ pc = "filtered"
    /\ LET T    == Tagged(blocks, lines, 0)
           good == SeqRange(filter_blocks(T, "good"))
           bad  == SeqRange(filter_blocks(T, "bad"))
           free == (0..(Len(lines) - 1)) \ OmitEnclosed(lines)
       IN  /\ \E i \in free : i \in good /\ i \in bad
           /\ \E i \in free : lines[i + 1] = LineA /\ i \notin good /\ i \notin bad
           /\ \E s \in 0..(Len(lines) - 1) : IsOmitOpener(lines, s)

(* ------------------------------------------------------------------ *)
(* C29: the normalization of blank lines is idempotent.                 *)

(* Three newlines in a row somewhere in the text. *)
HasLongRun(text) ==
    \E k \in 1..(Len(text) - 2) :
        text[k] = NL /\ text[k + 1] = NL /\ text[k + 2] = NL

(* C29: the normalized text holds no run of three newlines and the
   substitution applied to it once more returns it unchanged; a joined text
   without such a run is returned unchanged by the substitution. *)
C29_NormalizeIdempotent ==
    /\ pc = "normalized" =>
          /\ ~ HasLongRun(result)
          /\ normalize(result) = result
    /\ pc = "joined" /\ ~ HasLongRun(result) => normalize(result) = result

(* A joined text with four newlines in a row, normalized to another text. *)
C29_Witness ==
    /\ pc = "normalized"
    /\ result # join(filtered_lines)
    /\ \E k \in 1..(Len(join(filtered_lines)) - 3) :
          \A j \in k..(k + 3) : join(filtered_lines)[j] = NL

(* ------------------------------------------------------------------ *)
(* C30: the recursive parse agrees with the depth count.                *)

(* The block nodes of the tree, each with the list of lines it was parsed
   in. *)
BlockSites ==
    LET S == Sites
    IN  {S[k] : k \in {j \in 1..Len(S) : IsBlock(S[j].node)}}

(* C30: in the parse tree, a block inside a block whose opener has a
   matching #endif has a matching #endif itself, among the lines of its
   parent; and the children of every block cover the lines of the block:
   end_line - start_line - 1 lines when its opener has a matching #endif,
   end_line - start_line lines when it has none. *)
C30_ParseAgreesWithDepth ==
    pc = "parsed" =>
        \A P \in BlockSites :
            LET b          == P.node
                terminated == HasCloser(P.ls, b.start_line)
                inner      == InnerLines(P.ls, b.start_line)
            IN  /\ LineCount(b.content) = Len(inner)
                /\ LineCount(b.content) =
                      IF terminated
                      THEN b.end_line - b.start_line - 1
                      ELSE b.end_line - b.start_line
                /\ terminated =>
                      \A m \in 1..Len(b.content) :
                          IsBlock(b.content[m]) =>
                              HasCloser(inner, b.content[m].start_line)

(* A terminated block that holds a block, and a block without #endif that
   holds one too. *)
C30_Witness ==
    /\ pc = "parsed"
    /\ \E P \in BlockSites :
          /\ HasCloser(P.ls, P.node.start_line)
          /\ \E m \in 1..Len(P.node.content) : IsBlock(P.node.content[m])
    /\ \E P \in BlockSites :
          /\ ~ HasCloser(P.ls, P.node.start_line)
          /\ \E m \in 1..Len(P.node.content) : IsBlock(P.node.content[m])

====
